---- MODULE Spec2Model ----
(***************************************************************************)
(* Heist: shell history ingestion, normalization and session segmentation. *)
(*                                                                         *)
(* Text is a sequence of one-character strings, an Option<T> is the empty  *)
(* sequence (None) or a one-element sequence (Some(x)), and a point in     *)
(* time is its number of seconds since the epoch.                          *)
(***************************************************************************)
EXTENDS Integers, Sequences, FiniteSets, TLC

VARIABLES
    pc,           \* position of the program: "start", "parsed", "group", "done", ...
    shell,        \* the ShellType main() passes to parse_history
    hist_file,    \* the dialect's history file: [exists, lines]
    live_file,    \* ~/.heist_live_history: [exists, lines]
    mtime,        \* modification time of the history file (Option)
    dialect_out,  \* parse_history: `entries` as returned by the dialect reader
    live_out,     \* parse_history: `live`
    entries,      \* the record list handed on (parse_history's result)
    gap_minutes,  \* group_sessions: gap_minutes
    idx,          \* group_sessions / run_tui: position of the loop over the entries
    current,      \* group_sessions / run_tui: `current`
    last_ts,      \* group_sessions / run_tui: `last_ts`
    sessions,     \* group_sessions / run_tui: `sessions`
    tui_result,   \* run_tui's session construction: "none", "running", "ok" or "panic"
    home_ok,      \* whether dirs::home_dir() returns a directory
    parse_result, \* parse_history's Result: "none" (not called yet), "Ok" or "Err"
    env_shell,    \* detect_shell: the text of the SHELL environment variable
    top_n,        \* analyze_history: args.top
    ranking,      \* analyze_history / run_tui: freq_vec as listed
    flagged,      \* flag_dangerous: the warnings printed, in order
    found,        \* flag_dangerous: `found`
    utc_offset,   \* chrono::Local: seconds the local zone is east of UTC
    dir_counts,   \* per_directory_stats: `dir_counts`
    heatmap,      \* heatmap_stats: `heatmap`
    aliases,      \* suggest_aliases: the suggestions printed, in order
    filter,       \* analyze_history: args.filter
    search,       \* analyze_history: args.search
    range,        \* analyze_history: args.range
    analysis,     \* analyze_history: the analysis it ran ("none" when it ran none)
    filtered,     \* analyze_history: `filtered` as passed to the analysis
    analyze_result, \* analyze_history's Result: "none", "Ok" or "Err"
    printed,      \* analyze_history: the commands the default listing prints
    slot,         \* run_tui: the Vec inside history_data
    refresh_pc,   \* run_tui: position of the refresh thread
    render_pc,    \* run_tui: position of the render loop
    new_history,  \* run_tui: the refresh thread's `new_history`
    drawn,        \* run_tui: the snapshot the last terminal.draw read
    tui_shell,    \* run_tui: `shell` of line 69, moved into the refresh thread
    tui_file,     \* the history file of the dialect tui_shell: [exists, readable, lines]
    flags,        \* analyze_history: the options of args that are set, by name
    export,       \* analyze_history: args.export (Option)
    exported,     \* analyze_history: the files the export created
    tab,          \* run_tui: `tab`
    key_mode,     \* run_tui: `key_mode`
    theme,        \* run_tui: `theme`
    selected      \* run_tui: `selected`

vars == <<pc, shell, hist_file, live_file, mtime, dialect_out, live_out, entries,
          gap_minutes, idx, current, last_ts, sessions, tui_result,
          home_ok, parse_result, env_shell, top_n, ranking, flagged, found,
          utc_offset, dir_counts, heatmap, aliases,
          filter, search, range, analysis, filtered, analyze_result, printed,
          slot, refresh_pc, render_pc, new_history, drawn, tui_shell, tui_file,
          flags, export, exported, tab, key_mode, theme, selected>>

statsVars == <<utc_offset, dir_counts, heatmap, aliases>>

queryVars == <<filter, search, range, analysis, filtered, analyze_result, printed>>

tuiVars == <<slot, refresh_pc, render_pc, new_history, drawn, tui_shell, tui_file>>

dispatchVars == <<flags, export, exported>>

tabVars == <<tab, key_mode, theme, selected>>

----------------------------------------------------------------------------
(* Bounds of the model *)

MaxLen == 2        \* longest record list a reader hands to the normalizer
MaxEntries == 3    \* longest record list handed to the segmenter
MaxLines == 2      \* most lines in a history file
MaxLiveLines == 1  \* most lines in the live log

----------------------------------------------------------------------------
(* Option<T> *)

None == <<>>
Some(x) == <<x>>
IsSome(o) == o # <<>>
Unwrap(o) == o[1]

\* Ord for Option<DateTime<Local>>: None < Some(_), Some(a) < Some(b) iff a < b
OptLess(a, b) ==
    \/ a = None /\ b # None
    \/ a # None /\ b # None /\ a[1] < b[1]

OptLeq(a, b) == a = b \/ OptLess(a, b)

----------------------------------------------------------------------------
(* Text helpers: str::trim, str::trim_start, str::is_empty *)

IsWhitespace(c) == c \in {" ", "\t"}

RECURSIVE TrimStart(_)
TrimStart(s) ==
    IF s = <<>> THEN <<>>
    ELSE IF IsWhitespace(Head(s)) THEN TrimStart(Tail(s))
    ELSE s

RECURSIVE TrimEnd(_)
TrimEnd(s) ==
    IF s = <<>> THEN <<>>
    ELSE IF IsWhitespace(s[Len(s)]) THEN TrimEnd(SubSeq(s, 1, Len(s) - 1))
    ELSE s

Trim(s) == TrimEnd(TrimStart(s))

StartsWith(s, p) == Len(s) >= Len(p) /\ SubSeq(s, 1, Len(p)) = p

\* the rest of s from (0-based) byte offset n, as s[n..]
From(s, n) == SubSeq(s, n + 1, Len(s))

----------------------------------------------------------------------------
(* Records *)

HistoryEntry(ts, cmd) == [timestamp |-> ts, command |-> cmd, session_id |-> None]

----------------------------------------------------------------------------
(* Normalizer: parse_history, lines 74-76 *)

\* Vec::sort_by_key is a stable sort: an element goes after every element
\* already placed whose key is not greater than its own.
\* a sort that is not stable: an element overtakes the elements of equal key
RECURSIVE InsertByKeyUnstable(_, _)
InsertByKeyUnstable(sorted, e) ==
    IF sorted = <<>> THEN <<e>>
    ELSE IF OptLeq(e.timestamp, sorted[Len(sorted)].timestamp)
         THEN Append(InsertByKeyUnstable(SubSeq(sorted, 1, Len(sorted) - 1), e),
                     sorted[Len(sorted)])
         ELSE Append(sorted, e)

RECURSIVE InsertByKey(_, _)
InsertByKey(sorted, e) ==
    IF sorted = <<>> THEN <<e>>
    ELSE IF OptLess(e.timestamp, sorted[Len(sorted)].timestamp)
         THEN Append(InsertByKey(SubSeq(sorted, 1, Len(sorted) - 1), e), sorted[Len(sorted)])
         ELSE Append(sorted, e)

RECURSIVE SortByKey(_)
SortByKey(s) ==
    IF s = <<>> THEN <<>>
    ELSE InsertByKey(SortByKey(SubSeq(s, 1, Len(s) - 1)), s[Len(s)])

\* the closure of dedup_by: a is the element under test, b the last one kept
SameBucket(a, b) == a.timestamp = b.timestamp /\ a.command = b.command

\* Vec::dedup_by keeps the first element of every run of consecutive
\* elements the closure calls equal.
\* a dedup that compares with the first element kept instead of the last
RECURSIVE DedupByFirstKept(_)
DedupByFirstKept(s) ==
    IF s = <<>> THEN <<>>
    ELSE LET kept == DedupByFirstKept(SubSeq(s, 1, Len(s) - 1))
             e == s[Len(s)]
         IN IF kept # <<>> /\ SameBucket(e, kept[1])
            THEN kept
            ELSE Append(kept, e)

RECURSIVE DedupBy(_)
DedupBy(s) ==
    IF s = <<>> THEN <<>>
    ELSE LET kept == DedupBy(SubSeq(s, 1, Len(s) - 1))
             e == s[Len(s)]
         IN IF kept # <<>> /\ SameBucket(e, kept[Len(kept)])
            THEN kept
            ELSE Append(kept, e)

\* entries.append(&mut live); entries.sort_by_key(..); entries.dedup_by(..)
Normalize(dialect, live) == DedupBy(SortByKey(dialect \o live))

----------------------------------------------------------------------------
(* Numbers in text: str::parse::<i64> *)

Digits == <<"0", "1", "2", "3", "4", "5", "6", "7", "8", "9">>

IsDigit(c) == \E d \in 1..10 : Digits[d] = c

DigitVal(c) == (CHOOSE d \in 1..10 : Digits[d] = c) - 1

AllDigits(s) == \A i \in 1..Len(s) : IsDigit(s[i])

RECURSIVE DecimalValue(_)
DecimalValue(s) ==
    IF s = <<>> THEN 0
    ELSE 10 * DecimalValue(SubSeq(s, 1, Len(s) - 1)) + DigitVal(s[Len(s)])

\* text.parse::<i64>().ok(): an optional sign and at least one digit, nothing
\* else (the epochs of the model are far shorter than the 19 digits of i64::MAX)
ParseI64(s) ==
    IF s # <<>> /\ AllDigits(s) THEN Some(DecimalValue(s))
    ELSE IF Len(s) >= 2 /\ s[1] = "+" /\ AllDigits(Tail(s)) THEN Some(DecimalValue(Tail(s)))
    ELSE IF Len(s) >= 2 /\ s[1] = "-" /\ AllDigits(Tail(s)) THEN Some(0 - DecimalValue(Tail(s)))
    ELSE None

\* chrono::Local.timestamp_opt(t, 0).single(): every epoch of the model is in range
TimestampOpt(t) == Some(t)

\* number of leading digits of s
RECURSIVE DigitRun(_)
DigitRun(s) ==
    IF s = <<>> \/ ~IsDigit(Head(s)) THEN 0 ELSE 1 + DigitRun(Tail(s))

\* the least 1-based position of character c in s, 0 when s has none
Find(s, c) ==
    IF \E i \in 1..Len(s) : s[i] = c
    THEN CHOOSE i \in 1..Len(s) : s[i] = c /\ \A j \in 1..(i - 1) : s[j] # c
    ELSE 0

----------------------------------------------------------------------------
(* SourceReader: parser/mod.rs, one reader per dialect *)

\* the lines a reader sees: a missing file returns Ok(empty) before any read
FileLines(file) == IF file.exists THEN file.lines ELSE <<>>

\* a reader that opens the file without asking whether it exists
ReaderErrorOnMissing(home, file) == ~home \/ ~file.exists \/ ~file.readable

\* whether a dialect reader returns Err: home_dir() gives None (ok_or_else ... ?),
\* or the file exists and File::open fails (context ... ?); a missing file is
\* Ok(empty). (The lines of the model are valid text, so no read of a line fails.)
ReaderError(home, file) == ~home \/ (file.exists /\ ~file.readable)

\* a bash reader that keeps the lines as they are, blank or not
RECURSIVE parse_bash_history_raw(_)
parse_bash_history_raw(lines) ==
    IF lines = <<>> THEN <<>>
    ELSE <<HistoryEntry(None, Head(lines))>> \o parse_bash_history_raw(Tail(lines))

\* parse_bash_history, the loop of lines 95-104
RECURSIVE parse_bash_history(_)
parse_bash_history(lines) ==
    IF lines = <<>> THEN <<>>
    ELSE LET trimmed == Trim(Head(lines))
         IN IF trimmed = <<>>
            THEN parse_bash_history(Tail(lines))
            ELSE <<HistoryEntry(None, trimmed)>> \o parse_bash_history(Tail(lines))

\* the regex ^: (\d+):\d+;(.*) on a line: Some(<<group 1, group 2>>) or None
ZshCaptures(line) ==
    IF Len(line) >= 2 /\ line[1] = ":" /\ line[2] = " "
    THEN LET a == From(line, 2)
             n1 == DigitRun(a)
             b == From(a, n1 + 1)
             n2 == DigitRun(b)
             c == From(b, n2)
         IN IF /\ n1 >= 1
               /\ Len(a) > n1 /\ a[n1 + 1] = ":"
               /\ n2 >= 1
               /\ c # <<>> /\ c[1] = ";"
            THEN Some(<<SubSeq(a, 1, n1), Tail(c)>>)
            ELSE None
    ELSE None

\* a zsh reader that keeps only the lines the pattern matches
RECURSIVE parse_zsh_history_matching_only(_)
parse_zsh_history_matching_only(lines) ==
    IF lines = <<>> THEN <<>>
    ELSE LET line == Head(lines)
             cap == ZshCaptures(line)
         IN IF IsSome(cap)
            THEN LET ts == ParseI64(Unwrap(cap)[1])
                     command == Trim(Unwrap(cap)[2])
                     timestamp == IF IsSome(ts) THEN TimestampOpt(Unwrap(ts)) ELSE None
                 IN <<HistoryEntry(timestamp, command)>>
                        \o parse_zsh_history_matching_only(Tail(lines))
            ELSE parse_zsh_history_matching_only(Tail(lines))

\* parse_zsh_history, the loop of lines 122-142
RECURSIVE parse_zsh_history(_)
parse_zsh_history(lines) ==
    IF lines = <<>> THEN <<>>
    ELSE LET line == Head(lines)
             cap == ZshCaptures(line)
         IN IF IsSome(cap)
            THEN LET ts == ParseI64(Unwrap(cap)[1])
                     command == Trim(Unwrap(cap)[2])
                     timestamp == IF IsSome(ts) THEN TimestampOpt(Unwrap(ts)) ELSE None
                 IN <<HistoryEntry(timestamp, command)>> \o parse_zsh_history(Tail(lines))
            ELSE IF Trim(line) # <<>>
            THEN <<HistoryEntry(None, Trim(line))>> \o parse_zsh_history(Tail(lines))
            ELSE parse_zsh_history(Tail(lines))

CmdMarker == <<"-", " ", "c", "m", "d", ":", " ">>
WhenMarker == <<" ", " ", "w", "h", "e", "n", ":", " ">>

\* parse_fish_history: the locals before the loop (lines 148, 158, 159)
FishStart == [entries |-> <<>>, command |-> None, timestamp |-> None]

\* a loop body in which a new marker overwrites the pending command unemitted
FishIterOverwrite(st, line) ==
    IF StartsWith(TrimStart(line), CmdMarker)
    THEN [st EXCEPT !.command = Some(From(TrimStart(line), 7))]
    ELSE st

\* parse_fish_history: one line of the loop (lines 160-178)
FishIter(st, line) ==
    IF StartsWith(TrimStart(line), CmdMarker)
    THEN [entries   |-> IF IsSome(st.command)
                        THEN Append(st.entries, HistoryEntry(st.timestamp, Unwrap(st.command)))
                        ELSE st.entries,
          timestamp |-> IF IsSome(st.command) THEN None ELSE st.timestamp,
          command   |-> Some(From(TrimStart(line), 7))]
    ELSE IF StartsWith(TrimStart(line), WhenMarker)
    THEN LET ts == ParseI64(From(TrimStart(line), 8))
         IN [st EXCEPT !.timestamp = IF IsSome(ts) THEN TimestampOpt(Unwrap(ts)) ELSE None]
    ELSE st

RECURSIVE FishLoop(_, _)
FishLoop(st, lines) ==
    IF lines = <<>> THEN st ELSE FishLoop(FishIter(st, Head(lines)), Tail(lines))

\* parse_fish_history: the loop and the final flush (lines 179-186)
parse_fish_history(lines) ==
    LET st == FishLoop(FishStart, lines)
    IN IF IsSome(st.command)
       THEN Append(st.entries, HistoryEntry(st.timestamp, Unwrap(st.command)))
       ELSE st.entries

\* infer_timestamps_from_file: (0..n).rev() mapped to last_ts - (n-1-i) minutes,
\* collected in iteration order, so that position k (from 1) holds
\* last_ts - (k-1) minutes
infer_timestamps_from_file(mt, n) ==
    [k \in 1..n |-> IF IsSome(mt) THEN Some(Unwrap(mt) - 60 * (k - 1)) ELSE None]

\* the loop of parse_csh_history (lines 217-225), from line i on
RECURSIVE InferredLoop(_, _, _)
InferredLoop(lines, timestamps, i) ==
    IF i > Len(lines) THEN <<>>
    ELSE LET trimmed == Trim(lines[i])
         IN IF trimmed = <<>>
            THEN InferredLoop(lines, timestamps, i + 1)
            ELSE <<HistoryEntry(timestamps[i], trimmed)>> \o InferredLoop(lines, timestamps, i + 1)

\* parse_csh_history; parse_ksh_history, parse_mksh_history, parse_yash_history
\* and parse_osh_history are the same code on another path
parse_csh_history(lines, mt) ==
    InferredLoop(lines, infer_timestamps_from_file(mt, Len(lines)), 1)

\* parse_tcsh_history, the loop of lines 242-260
RECURSIVE parse_tcsh_history(_)
parse_tcsh_history(lines) ==
    IF lines = <<>> THEN <<>>
    ELSE LET trimmed == Trim(Head(lines))
             tab_pos == Find(trimmed, "\t")
         IN IF trimmed = <<>>
            THEN parse_tcsh_history(Tail(lines))
            ELSE IF tab_pos > 0
            THEN LET ts == ParseI64(SubSeq(trimmed, 1, tab_pos - 1))
                     cmd == From(trimmed, tab_pos)
                     timestamp == IF IsSome(ts) THEN TimestampOpt(Unwrap(ts)) ELSE None
                 IN <<HistoryEntry(timestamp, cmd)>> \o parse_tcsh_history(Tail(lines))
            ELSE <<HistoryEntry(None, trimmed)>> \o parse_tcsh_history(Tail(lines))

Shells == {"Bash", "Zsh", "Fish", "Csh", "Tcsh", "Ksh", "Dash", "Sh", "Mksh", "Yash", "Osh"}

\* the dialects whose reader is infer_timestamps_from_file plus the plain loop
InferredShells == {"Csh", "Ksh", "Mksh", "Yash", "Osh"}

\* the dialects read by parse_bash_history (dash and sh delegate to it)
BashShells == {"Bash", "Dash", "Sh"}

\* the match of parse_history (lines 59-71)
ReadDialect(sh, file, mt) ==
    CASE sh \in BashShells -> parse_bash_history(FileLines(file))
      [] sh = "Zsh" -> parse_zsh_history(FileLines(file))
      [] sh = "Fish" -> parse_fish_history(FileLines(file))
      [] sh = "Tcsh" -> parse_tcsh_history(FileLines(file))
      [] sh \in InferredShells -> parse_csh_history(FileLines(file), mt)

----------------------------------------------------------------------------
(* LiveLogMerger: parse_heist_live_history *)

TwoDigits(s, i) == 10 * DigitVal(s[i]) + DigitVal(s[i + 1])

IsLeap(y) == (y % 4 = 0 /\ y % 100 # 0) \/ y % 400 = 0

DaysInMonth(y, m) ==
    IF m = 2 THEN (IF IsLeap(y) THEN 29 ELSE 28)
    ELSE IF m \in {4, 6, 9, 11} THEN 30 ELSE 31

\* days from 1970-01-01 to the civil date y-m-d
DaysFromCivil(y, m, d) ==
    LET yy == IF m <= 2 THEN y - 1 ELSE y
        era == yy \div 400
        yoe == yy - era * 400
        mp == IF m > 2 THEN m - 3 ELSE m + 9
        doy == (153 * mp + 2) \div 5 + d - 1
        doe == yoe * 365 + yoe \div 4 - yoe \div 100 + doy
    IN era * 146097 + doe - 719468

\* DateTime::parse_from_str(ts, "%Y-%m-%dT%H:%M:%S%z").ok() on the canonical
\* 24-character form YYYY-MM-DDTHH:MM:SS+ZZZZ; the instant in seconds, or None
ParseLiveTimestamp(s) ==
    IF /\ Len(s) = 24
       /\ \A i \in {1, 2, 3, 4, 6, 7, 9, 10, 12, 13, 15, 16, 18, 19, 21, 22, 23, 24} : IsDigit(s[i])
       /\ s[5] = "-" /\ s[8] = "-" /\ s[11] = "T" /\ s[14] = ":" /\ s[17] = ":"
       /\ s[20] \in {"+", "-"}
    THEN LET y == 100 * TwoDigits(s, 1) + TwoDigits(s, 3)
             m == TwoDigits(s, 6)
             d == TwoDigits(s, 9)
             hh == TwoDigits(s, 12)
             mi == TwoDigits(s, 15)
             ss == TwoDigits(s, 18)
             off == (IF s[20] = "-" THEN -1 ELSE 1) * (3600 * TwoDigits(s, 21) + 60 * TwoDigits(s, 23))
         IN IF /\ m \in 1..12 /\ d \in 1..DaysInMonth(y, m)
               /\ hh < 24 /\ mi < 60 /\ ss < 60 /\ TwoDigits(s, 23) < 60
            THEN Some(DaysFromCivil(y, m, d) * 86400 + 3600 * hh + 60 * mi + ss - off)
            ELSE None
    ELSE None

\* parse_heist_live_history, the loop of lines 388-400
RECURSIVE LiveLoop(_)
LiveLoop(lines) ==
    IF lines = <<>> THEN <<>>
    ELSE LET line == Head(lines)
             bar == Find(line, "|")
         IN IF bar > 0
            THEN <<HistoryEntry(ParseLiveTimestamp(SubSeq(line, 1, bar - 1)),
                                Trim(From(line, bar)))>> \o LiveLoop(Tail(lines))
            ELSE LiveLoop(Tail(lines))

parse_heist_live_history(file) == LiveLoop(FileLines(file))

\* parse_history: the dialect reader, the live log, then the normalizer
parse_history(sh, file, mt, live) ==
    Normalize(ReadDialect(sh, file, mt), parse_heist_live_history(live))

----------------------------------------------------------------------------
(* SessionSegmenter: analyzer.rs group_sessions *)

\* chrono::Duration::num_minutes of a difference of d seconds: whole minutes,
\* rounded toward zero
NumMinutes(d) == IF d >= 0 THEN d \div 60 ELSE -((-d) \div 60)

\* ts.signed_duration_since(last).num_minutes() > gap
GapExceeded(ts, last, gap) == NumMinutes(ts - last) > gap

\* the locals of group_sessions before the loop (lines 25-27)
GroupStart == [sessions |-> <<>>, current |-> <<>>, last_ts |-> None]

\* an iteration that moves the cursor on every record, timed or not
GroupIterCursorAlways(st, entry, gap) ==
    LET boundary == /\ IsSome(entry.timestamp)
                    /\ IsSome(st.last_ts)
                    /\ GapExceeded(Unwrap(entry.timestamp), Unwrap(st.last_ts), gap)
                    /\ st.current # <<>>
        flushed == IF boundary THEN Append(st.sessions, st.current) ELSE st.sessions
        open == IF boundary THEN <<>> ELSE st.current
    IN [sessions |-> flushed,
        current  |-> Append(open, entry),
        last_ts  |-> entry.timestamp]

\* one iteration of the loop of group_sessions (lines 28-41)
GroupIter(st, entry, gap) ==
    LET boundary == /\ IsSome(entry.timestamp)
                    /\ IsSome(st.last_ts)
                    /\ GapExceeded(Unwrap(entry.timestamp), Unwrap(st.last_ts), gap)
                    /\ st.current # <<>>
        flushed == IF boundary THEN Append(st.sessions, st.current) ELSE st.sessions
        open == IF boundary THEN <<>> ELSE st.current
    IN [sessions |-> flushed,
        current  |-> Append(open, entry),
        last_ts  |-> IF IsSome(entry.timestamp) THEN entry.timestamp ELSE st.last_ts]

\* a return that forgets the in-progress session
GroupFlushDropped(st) == st.sessions

\* after the loop (lines 42-45): the in-progress session is flushed
GroupFlush(st) ==
    IF st.current # <<>> THEN Append(st.sessions, st.current) ELSE st.sessions

RECURSIVE GroupLoop(_, _, _)
GroupLoop(st, es, gap) ==
    IF es = <<>> THEN st
    ELSE GroupLoop(GroupIter(st, Head(es), gap), Tail(es), gap)

group_sessions(es, gap) == GroupFlush(GroupLoop(GroupStart, es, gap))

----------------------------------------------------------------------------
(* Inputs of the record-level specifications *)

SeqsUpTo(S, n) == UNION {[1..k -> S] : k \in 0..n}

ls == <<"l", "s">>
pwd == <<"p", "w", "d">>

Commands == {ls, pwd}

\* seconds: 5, 10.5 and 20 minutes after 0, and half a minute after 0
TsChoices == {0, 30, 300, 630, 1200}

GapChoices == {0, 10}

NormRecords == {HistoryEntry(ts, c) : ts \in {None, Some(0), Some(300)}, c \in Commands}

SegRecords == {HistoryEntry(ts, c) : ts \in {None} \cup {Some(t) : t \in TsChoices}, c \in Commands}

----------------------------------------------------------------------------
(* SpecNorm: the normalizer of parse_history on every pair of reader outputs *)

Idle ==
    /\ shell = "Bash"
    /\ hist_file = [exists |-> FALSE, readable |-> FALSE, lines |-> <<>>]
    /\ live_file = [exists |-> FALSE, readable |-> FALSE, lines |-> <<>>]
    /\ mtime = None
    /\ home_ok = TRUE
    /\ parse_result = "none"

\* nothing detected, ranked or flagged yet
NoAnalytics ==
    /\ env_shell = <<>>
    /\ top_n = 0
    /\ ranking = <<>>
    /\ flagged = <<>>
    /\ found = FALSE

\* [[0usize; 24]; 7]
ZeroHeatmap == [wd \in 0..6 |-> [hr \in 0..23 |-> 0]]

\* no statistics computed yet
NoStats ==
    /\ utc_offset = 0
    /\ dir_counts = <<>>
    /\ heatmap = ZeroHeatmap
    /\ aliases = <<>>

\* analyze_history not called
NoQuery ==
    /\ filter = <<>>
    /\ search = <<>>
    /\ range = <<>>
    /\ analysis = "none"
    /\ filtered = <<>>
    /\ analyze_result = "none"
    /\ printed = <<>>

\* run_tui not called
NoTui ==
    /\ slot = <<>>
    /\ refresh_pc = "off"
    /\ render_pc = "off"
    /\ new_history = <<>>
    /\ drawn = <<>>
    /\ tui_shell = "Bash"
    /\ tui_file = [exists |-> FALSE, readable |-> FALSE, lines |-> <<>>]

\* analyze_history called without an analysis option, or not called
NoDispatch ==
    /\ flags = {}
    /\ export = <<>>
    /\ exported = {}

\* the locals of run_tui as lines 101-106 initialize them
NoTabs ==
    /\ tab = "Summary"
    /\ key_mode = "Default"
    /\ theme = "Default"
    /\ selected = 0

NoLoop ==
    /\ gap_minutes = 10
    /\ idx = 1
    /\ current = <<>>
    /\ last_ts = None
    /\ sessions = <<>>
    /\ tui_result = "none"

InitNorm ==
    /\ pc = "start"
    /\ Idle
    /\ dialect_out \in SeqsUpTo(NormRecords, MaxLen)
    /\ live_out \in SeqsUpTo(NormRecords, MaxLen)
    /\ entries = <<>>
    /\ NoLoop
    /\ NoAnalytics
    /\ NoStats
    /\ NoQuery
    /\ NoTui
    /\ NoDispatch
    /\ NoTabs

\* parse_history from line 74 on: append, sort, dedup, return
MergeAndNormalize ==
    /\ pc = "start"
    /\ entries' = Normalize(dialect_out, live_out)
    /\ pc' = "parsed"
    /\ UNCHANGED <<shell, hist_file, live_file, mtime, dialect_out, live_out,
                   gap_minutes, idx, current, last_ts, sessions, tui_result>>
    /\ UNCHANGED <<home_ok, parse_result, env_shell, top_n, ranking, flagged, found>>
    /\ UNCHANGED <<statsVars, queryVars, tuiVars, dispatchVars, tabVars>>

NextNorm == MergeAndNormalize

SpecNorm == InitNorm /\ [][NextNorm]_vars

----------------------------------------------------------------------------
(* SpecSeg: group_sessions, one loop iteration per step, on every record list *)

InitSeg ==
    /\ pc = "group"
    /\ Idle
    /\ dialect_out = <<>>
    /\ live_out = <<>>
    /\ entries \in SeqsUpTo(SegRecords, MaxEntries)
    /\ gap_minutes \in GapChoices
    /\ idx = 1
    /\ current = GroupStart.current
    /\ last_ts = GroupStart.last_ts
    /\ sessions = GroupStart.sessions
    /\ tui_result = "none"
    /\ NoAnalytics
    /\ NoStats
    /\ NoQuery
    /\ NoTui
    /\ NoDispatch
    /\ NoTabs

\* for entry in entries { ... }
GroupStep ==
    /\ pc = "group"
    /\ idx <= Len(entries)
    /\ LET st == GroupIter([sessions |-> sessions, current |-> current, last_ts |-> last_ts],
                           entries[idx], gap_minutes)
       IN /\ sessions' = st.sessions
          /\ current' = st.current
          /\ last_ts' = st.last_ts
    /\ idx' = idx + 1
    /\ UNCHANGED <<pc, shell, hist_file, live_file, mtime, dialect_out, live_out,
                   entries, gap_minutes, tui_result>>
    /\ UNCHANGED <<home_ok, parse_result, env_shell, top_n, ranking, flagged, found>>
    /\ UNCHANGED <<statsVars, queryVars, tuiVars, dispatchVars, tabVars>>

\* the end of the loop: flush and return
GroupReturn ==
    /\ pc = "group"
    /\ idx > Len(entries)
    /\ sessions' = GroupFlush([sessions |-> sessions, current |-> current, last_ts |-> last_ts])
    /\ pc' = "done"
    /\ UNCHANGED <<shell, hist_file, live_file, mtime, dialect_out, live_out,
                   entries, gap_minutes, idx, current, last_ts, tui_result>>
    /\ UNCHANGED <<home_ok, parse_result, env_shell, top_n, ranking, flagged, found>>
    /\ UNCHANGED <<statsVars, queryVars, tuiVars, dispatchVars, tabVars>>

NextSeg == GroupStep \/ GroupReturn

SpecSeg == InitSeg /\ [][NextSeg]_vars

----------------------------------------------------------------------------
(* run_tui: the session list built before the render loop (ui/mod.rs 110-136) *)

TuiGapMinutes == 10

Session(start, end, commands) == [start |-> start, end |-> end, commands |-> commands]

TuiStart == [sessions |-> <<>>, current |-> <<>>, last_ts |-> None, panicked |-> FALSE]

\* current.first().unwrap().timestamp.unwrap() and the same of last(): the
\* unwrap of a None timestamp panics
TuiPush(st) ==
    LET first == st.current[1]
        last == st.current[Len(st.current)]
    IN IF IsSome(first.timestamp) /\ IsSome(last.timestamp)
       THEN [st EXCEPT !.sessions = Append(st.sessions,
                                           Session(Unwrap(first.timestamp),
                                                   Unwrap(last.timestamp), st.current)),
                       !.current = <<>>]
       ELSE [st EXCEPT !.panicked = TRUE]

\* one iteration of the loop (lines 115-130); nothing runs after a panic
TuiIter(st, entry) ==
    IF st.panicked THEN st
    ELSE LET boundary == /\ IsSome(entry.timestamp)
                         /\ IsSome(st.last_ts)
                         /\ GapExceeded(Unwrap(entry.timestamp), Unwrap(st.last_ts), TuiGapMinutes)
                         /\ st.current # <<>>
             pushed == IF boundary THEN TuiPush(st) ELSE st
         IN IF pushed.panicked THEN pushed
            ELSE [pushed EXCEPT !.current = Append(pushed.current, entry),
                                !.last_ts = IF IsSome(entry.timestamp)
                                            THEN entry.timestamp ELSE st.last_ts]

RECURSIVE TuiLoop(_, _)
TuiLoop(st, es) ==
    IF es = <<>> THEN st ELSE TuiLoop(TuiIter(st, Head(es)), Tail(es))

\* lines 111-136: the guard on the empty history, the loop, the final push
TuiSessions(history) ==
    IF history = <<>> THEN TuiStart
    ELSE LET st == TuiLoop(TuiStart, history)
         IN IF ~st.panicked /\ st.current # <<>> THEN TuiPush(st) ELSE st

----------------------------------------------------------------------------
(* Inputs of the file-level specification: the lines a history file may hold *)

\* plain lists: an empty line, a blank line, padded and unpadded commands
PlainLines ==
    {<<>>,
     <<" ">>,
     <<"l", "s">>,
     <<" ", "l", "s", "\t">>,
     <<"p", "w", "d">>}

\* zsh: extended-history lines (two of them with no command text), a plain line,
\* an indented plain line, a blank line
ZshLines ==
    {<<":", " ", "0", ":", "0", ";", "l", "s">>,
     <<":", " ", "3", "0", "0", ":", "0", ";", "p", "w", "d">>,
     <<":", " ", "6", "3", "0", ":", "0", ";", " ">>,
     <<":", " ", "0", ":", "0", ";">>,
     <<"l", "s">>,
     <<" ", "l", "s">>,
     <<" ">>}

\* fish: command markers (one with nothing after the marker), a when line and a paths line
FishLines ==
    {<<"-", " ", "c", "m", "d", ":", " ", "l", "s">>,
     <<"-", " ", "c", "m", "d", ":", " ", "p", "w", "d">>,
     <<"-", " ", "c", "m", "d", ":", " ">>,
     <<" ", " ", "w", "h", "e", "n", ":", " ", "3", "0", "0">>,
     <<" ", " ", "p", "a", "t", "h", "s", ":">>}

\* tcsh: epoch, tab, command; a prefix that is no epoch; a line without tab; a blank line
TcshLines ==
    {<<"3", "0", "0", "\t", "l", "s">>,
     <<"x", "\t", "l", "s">>,
     <<"p", "w", "d">>,
     <<" ">>}

\* live log: timestamp|command, also with an offset, without command, with a timestamp that does not parse, and without the bar
LiveLines ==
    {<<"1", "9", "7", "0", "-", "0", "1", "-", "0", "1", "T", "0", "0", ":", "0", "5", ":", "0", "0", "+", "0", "0", "0", "0", "|", "l", "s">>,
     <<"1", "9", "7", "0", "-", "0", "1", "-", "0", "1", "T", "0", "1", ":", "0", "0", ":", "0", "0", "+", "0", "1", "0", "0", "|", "p", "w", "d">>,
     <<"1", "9", "7", "0", "-", "0", "1", "-", "0", "1", "T", "0", "0", ":", "2", "0", ":", "0", "0", "+", "0", "0", "0", "0", "|">>,
     <<"s", "o", "o", "n", "|", "l", "s">>,
     <<"l", "s">>}

MtimeChoices == {None, Some(1200)}

LinesFor(sh) ==
    CASE sh \in BashShells -> PlainLines
      [] sh \in InferredShells -> PlainLines
      [] sh = "Zsh" -> ZshLines
      [] sh = "Fish" -> FishLines
      [] sh = "Tcsh" -> TcshLines

\* a missing file, a file that exists and cannot be opened, and the readable files
Files(lineSet, n) ==
    {[exists |-> FALSE, readable |-> FALSE, lines |-> <<>>],
     [exists |-> TRUE, readable |-> FALSE, lines |-> <<>>]}
        \cup {[exists |-> TRUE, readable |-> TRUE, lines |-> l] : l \in SeqsUpTo(lineSet, n)}

\* without a home directory no path is computed, so there is no file to find
NoFiles == {[exists |-> FALSE, readable |-> FALSE, lines |-> <<>>]}

----------------------------------------------------------------------------
(* Spec: main() on every dialect and every pair of files *)

Init ==
    /\ pc = "start"
    /\ shell \in Shells
    /\ home_ok \in BOOLEAN
    /\ hist_file \in (IF home_ok THEN Files(LinesFor(shell), MaxLines) ELSE NoFiles)
    /\ live_file \in (IF home_ok THEN Files(LiveLines, MaxLiveLines) ELSE NoFiles)
    /\ mtime \in (IF shell \in InferredShells /\ hist_file.exists THEN MtimeChoices ELSE {None})
    /\ parse_result = "none"
    /\ dialect_out = <<>>
    /\ live_out = <<>>
    /\ entries = <<>>
    /\ NoLoop
    /\ NoAnalytics
    /\ NoStats
    /\ NoQuery
    /\ NoTui
    /\ NoDispatch
    /\ NoTabs

\* main, line 25: parse_history(&shell, &args)
\* (the ? of line 25 returns the reader's error from main)
ParseHistory ==
    /\ pc = "start"
    /\ IF ReaderError(home_ok, hist_file)
       THEN /\ parse_result' = "Err"
            /\ pc' = "failed"
            /\ UNCHANGED <<dialect_out, live_out, entries>>
       ELSE /\ parse_result' = "Ok"
            /\ dialect_out' = ReadDialect(shell, hist_file, mtime)
            /\ live_out' = parse_heist_live_history(live_file)
            /\ entries' = parse_history(shell, hist_file, mtime, live_file)
            /\ pc' = "parsed"
    /\ UNCHANGED <<shell, hist_file, live_file, mtime,
                   gap_minutes, idx, current, last_ts, sessions, tui_result>>
    /\ UNCHANGED <<home_ok, env_shell, top_n, ranking, flagged, found>>
    /\ UNCHANGED <<statsVars, queryVars, tuiVars, dispatchVars, tabVars>>

\* main, line 32: run_tui builds its session list from the history
RunTuiSessions ==
    /\ pc = "parsed"
    /\ LET st == TuiSessions(entries)
       IN /\ sessions' = st.sessions
          /\ current' = st.current
          /\ last_ts' = st.last_ts
          /\ tui_result' = IF st.panicked THEN "panic" ELSE "ok"
    /\ pc' = "tui"
    /\ UNCHANGED <<shell, hist_file, live_file, mtime, dialect_out, live_out,
                   entries, gap_minutes, idx>>
    /\ UNCHANGED <<home_ok, parse_result, env_shell, top_n, ranking, flagged, found>>
    /\ UNCHANGED <<statsVars, queryVars, tuiVars, dispatchVars, tabVars>>

\* main, line 29: analyze_history with session_summary as the only option
\* (an empty history returns before any analysis)
AnalyzeSessionSummary ==
    /\ pc = "parsed"
    /\ sessions' = IF entries = <<>> THEN sessions ELSE group_sessions(entries, gap_minutes)
    /\ pc' = "done"
    /\ UNCHANGED <<shell, hist_file, live_file, mtime, dialect_out, live_out,
                   entries, gap_minutes, idx, current, last_ts, tui_result>>
    /\ UNCHANGED <<home_ok, parse_result, env_shell, top_n, ranking, flagged, found>>
    /\ UNCHANGED <<statsVars, queryVars, tuiVars, dispatchVars, tabVars>>

Next == ParseHistory \/ RunTuiSessions \/ AnalyzeSessionSummary

Spec == Init /\ [][Next]_vars

----------------------------------------------------------------------------
(* Vocabulary of the properties *)

Merged == dialect_out \o live_out

WithKey(s, k) == LET Test(e) == e.timestamp = k IN SelectSeq(s, Test)

Keys(s) == {s[i].timestamp : i \in 1..Len(s)}

\* s without the elements that repeat their predecessor
RECURSIVE FirstOfRuns(_)
FirstOfRuns(s) ==
    IF Len(s) <= 1 THEN s
    ELSE IF s[Len(s)] = s[Len(s) - 1]
         THEN FirstOfRuns(SubSeq(s, 1, Len(s) - 1))
         ELSE Append(FirstOfRuns(SubSeq(s, 1, Len(s) - 1)), s[Len(s)])

SortedByTimestamp(s) ==
    \A i, j \in 1..Len(s) : i < j => OptLeq(s[i].timestamp, s[j].timestamp)

RECURSIVE Flatten(_)
Flatten(ss) == IF ss = <<>> THEN <<>> ELSE Head(ss) \o Flatten(Tail(ss))

RECURSIVE SumLen(_, _)
SumLen(ss, k) == IF k = 0 THEN 0 ELSE Len(ss[k]) + SumLen(ss, k - 1)

\* the session that holds the i-th input record, sessions being laid end to end
SessionOf(ss, i) == CHOOSE k \in 1..Len(ss) : SumLen(ss, k - 1) < i /\ i <= SumLen(ss, k)

Timed(e) == IsSome(e.timestamp)

TimedOnly(s) == SelectSeq(s, Timed)

\* positions i < j of timed records with no timed record between them
ConsecutiveTimed(s, i, j) ==
    /\ i < j
    /\ Timed(s[i])
    /\ Timed(s[j])
    /\ \A k \in (i + 1)..(j - 1) : ~Timed(s[k])

Seconds(a, b) == Unwrap(b.timestamp) - Unwrap(a.timestamp)

RECURSIVE DropEmpty(_)
DropEmpty(ss) ==
    IF ss = <<>> THEN <<>>
    ELSE IF Head(ss) = <<>> THEN DropEmpty(Tail(ss))
    ELSE <<Head(ss)>> \o DropEmpty(Tail(ss))

\* the sessions with the untimed records taken out
TimedSessions(ss) == DropEmpty([k \in 1..Len(ss) |-> TimedOnly(ss[k])])

----------------------------------------------------------------------------
(* Normalizer properties, under SpecNorm *)

\* C1: the list parse_history returns is sorted by timestamp with the untimed
\* records first, and the sort is stable: the records of one timestamp appear
\* in the order they have in the concatenation (dialect records, then live-log
\* records), adjacent repeats collapsed.
C1_SortedStable ==
    pc = "parsed" =>
        /\ SortedByTimestamp(entries)
        /\ \A k \in Keys(Merged) \cup Keys(entries) :
               WithKey(entries, k) = FirstOfRuns(WithKey(Merged, k))

\* two live-log records and a dialect record of one timestamp, in the order
\* dialect first, with different commands
C1_Witness ==
    /\ pc = "parsed"
    /\ Len(dialect_out) = 1
    /\ Len(live_out) = 2
    /\ live_out[1].timestamp = dialect_out[1].timestamp
    /\ live_out[1].command # dialect_out[1].command
    /\ live_out[2].timestamp = None
    /\ IsSome(live_out[1].timestamp)
    /\ Len(entries) = 3

\* C2: no two adjacent records of the returned list have the same timestamp
\* and the same command.
C2_NoAdjacentDuplicate ==
    pc = "parsed" =>
        \A i \in 1..(Len(entries) - 1) :
            ~(/\ entries[i].timestamp = entries[i + 1].timestamp
              /\ entries[i].command = entries[i + 1].command)

\* a duplicate pair was merged in, behind a different record, and collapsed
C2_Witness ==
    /\ pc = "parsed"
    /\ Len(Merged) = 3
    /\ Merged[2] = Merged[3]
    /\ Merged[1] # Merged[2]
    /\ OptLess(Merged[1].timestamp, Merged[2].timestamp)
    /\ Len(entries) = 2

\* C3: normalizing L ++ L gives the same list as normalizing L.
C3_SelfConcatIdempotent ==
    (pc = "parsed" /\ live_out = dialect_out) =>
        entries = Normalize(dialect_out, <<>>)

----------------------------------------------------------------------------
(* Segmenter properties, under SpecSeg *)

\* C4: two timed records that are consecutive among the timed records are in
\* different sessions exactly when the later timestamp exceeds the earlier one
\* by more than the gap threshold, at one-second resolution.
C4_BoundaryIffGapExceeded ==
    pc = "done" =>
        \A i, j \in 1..Len(entries) :
            ConsecutiveTimed(entries, i, j) =>
                ((SessionOf(sessions, i) # SessionOf(sessions, j))
                    <=> (Seconds(entries[i], entries[j]) > gap_minutes * 60))

\* C5: an untimed record is appended to the open session, closes no session
\* and leaves the cursor alone, so that the timed records are segmented as if
\* the untimed records were absent.
C5_UntimedIsFrame ==
    [][/\ (pc = "group" /\ idx <= Len(entries) /\ ~Timed(entries[idx])) =>
            /\ current' = Append(current, entries[idx])
            /\ sessions' = sessions
            /\ last_ts' = last_ts
       /\ pc' = "done" =>
            TimedSessions(sessions') = group_sessions(TimedOnly(entries), gap_minutes)
      ]_vars

\* an untimed record between two timed records that a boundary separates
C5_Witness ==
    /\ pc = "done"
    /\ Len(entries) = 3
    /\ Timed(entries[1])
    /\ ~Timed(entries[2])
    /\ Timed(entries[3])
    /\ Len(sessions) = 2
    /\ Len(sessions[1]) = 2

\* C6: the sessions partition the input: laid end to end they are the input,
\* none is empty, the first record opens the first session, the last record is
\* in the last session, and there are no sessions only for the empty input.
C6_SessionsPartitionInput ==
    pc = "done" =>
        /\ Flatten(sessions) = entries
        /\ \A k \in 1..Len(sessions) : sessions[k] # <<>>
        /\ (sessions = <<>>) <=> (entries = <<>>)
        /\ entries # <<>> =>
            /\ sessions[1][1] = entries[1]
            /\ LET lastS == sessions[Len(sessions)]
               IN lastS[Len(lastS)] = entries[Len(entries)]

\* three records in two sessions, the first of them untimed
C6_Witness ==
    /\ pc = "done"
    /\ Len(entries) = 3
    /\ ~Timed(entries[1])
    /\ Len(sessions) = 2

\* C7: for a time-ordered list of timed records the number of sessions is 1
\* plus the number of adjacent pairs whose gap exceeds the threshold.
C7_SessionCount ==
    (/\ pc = "done"
     /\ entries # <<>>
     /\ \A i \in 1..Len(entries) : Timed(entries[i])
     /\ SortedByTimestamp(entries)) =>
        Len(sessions) = 1 + Cardinality({i \in 1..(Len(entries) - 1) :
                                 Seconds(entries[i], entries[i + 1]) > gap_minutes * 60})

----------------------------------------------------------------------------
(* Pipeline properties, under Spec *)

TimedPositions(s) == {i \in 1..Len(s) : Timed(s[i])}

Min(S) == CHOOSE x \in S : \A y \in S : x <= y
Max(S) == CHOOSE x \in S : \A y \in S : x >= y

\* C8: from a non-empty normalized history run_tui's session construction
\* never fails, and every session's start and end are the timestamps of its
\* first and last timed members.
C8_TuiSessionsDefined ==
    (pc = "tui" /\ entries # <<>>) =>
        /\ tui_result = "ok"
        /\ \A k \in 1..Len(sessions) :
               LET cmds == sessions[k].commands
                   timed == TimedPositions(cmds)
               IN /\ timed # {}
                  /\ sessions[k].start = Unwrap(cmds[Min(timed)].timestamp)
                  /\ sessions[k].end = Unwrap(cmds[Max(timed)].timestamp)

\* C9: every record parse_history returns has a non-empty command.
C9_CommandNeverEmpty ==
    pc # "start" => \A i \in 1..Len(entries) : entries[i].command # <<>>

NonBlank(line) == \E i \in 1..Len(line) : ~IsWhitespace(line[i])

\* c is the line without its leading and trailing whitespace
IsTrimOf(c, line) ==
    \E a, b \in 1..Len(line) :
        /\ a <= b
        /\ c = SubSeq(line, a, b)
        /\ ~IsWhitespace(line[a])
        /\ ~IsWhitespace(line[b])
        /\ \A k \in 1..(a - 1) : IsWhitespace(line[k])
        /\ \A k \in (b + 1)..Len(line) : IsWhitespace(line[k])

\* C10: parse_bash_history returns one record per non-blank line, in file
\* order, each with timestamp None, session_id None and the trimmed line as
\* its command; blank lines produce nothing.
C10_BashOneRecordPerLine ==
    (pc # "start" /\ shell \in BashShells /\ hist_file.exists) =>
        LET lines == hist_file.lines
            kept == {i \in 1..Len(lines) : NonBlank(lines[i])}
            Rank(i) == Cardinality({j \in kept : j <= i})
        IN /\ Len(dialect_out) = Cardinality(kept)
           /\ \A i \in kept :
                  /\ dialect_out[Rank(i)].timestamp = None
                  /\ dialect_out[Rank(i)].session_id = None
                  /\ IsTrimOf(dialect_out[Rank(i)].command, lines[i])

\* a bash file of a blank line and a padded command
C10_Witness ==
    /\ pc = "parsed"
    /\ shell = "Bash"
    /\ Len(hist_file.lines) = 2
    /\ ~NonBlank(hist_file.lines[1])
    /\ Len(hist_file.lines[1]) = 1
    /\ NonBlank(hist_file.lines[2])
    /\ IsWhitespace(hist_file.lines[2][1])
    /\ Len(dialect_out) = 1

----------------------------------------------------------------------------
(* Reader properties, under Spec *)

\* parse_history returned Ok from a history file that was read
ReadOk(shells) ==
    /\ parse_result = "Ok"
    /\ shell \in shells
    /\ hist_file.exists

NonBlankLines(lines) == {i \in 1..Len(lines) : NonBlank(lines[i])}

\* how many members of S are at most i: the place of line i among the lines S
RankIn(S, i) == Cardinality({j \in S : j <= i})

\* c is s without its leading and trailing whitespace, empty when s is blank
IsTrimmed(c, s) == IF NonBlank(s) THEN IsTrimOf(c, s) ELSE c = <<>>

\* line is ": " digits ":" digits ";" rest, the epoch digits ending at p and
\* the duration digits at q
ZshForm(line, p, q) ==
    /\ Len(line) >= 6
    /\ line[1] = ":"
    /\ line[2] = " "
    /\ 3 <= p
    /\ p + 2 <= q
    /\ q + 1 <= Len(line)
    /\ AllDigits(SubSeq(line, 3, p))
    /\ line[p + 1] = ":"
    /\ AllDigits(SubSeq(line, p + 2, q))
    /\ line[q + 1] = ";"

IsZshForm(line) == \E p, q \in 1..Len(line) : ZshForm(line, p, q)

\* the record a line of the zsh form stands for: its epoch, and the text
\* after the ';' without the whitespace around it
ZshRecordOf(r, line) ==
    \E p, q \in 1..Len(line) :
        /\ ZshForm(line, p, q)
        /\ r.timestamp = Some(DecimalValue(SubSeq(line, 3, p)))
        /\ IsTrimmed(r.command, SubSeq(line, q + 2, Len(line)))

\* one record per non-blank line in file order, the lines of the zsh form as
\* ZshRecordOf says and every other line as Plain(record, line) says
ZshRecords(Plain(_, _)) ==
    LET lines == hist_file.lines
        kept == NonBlankLines(lines)
    IN /\ Len(dialect_out) = Cardinality(kept)
       /\ \A i \in kept :
              LET r == dialect_out[RankIn(kept, i)]
              IN IF IsZshForm(lines[i])
                 THEN ZshRecordOf(r, lines[i])
                 ELSE r.timestamp = None /\ Plain(r, lines[i])

KeptVerbatim(r, line) == r.command = line

KeptTrimmed(r, line) == IsTrimOf(r.command, line)

C12_TcshFallbackWholeLine ==
    ReadOk({"Tcsh"}) =>
        LET lines == hist_file.lines
            kept == NonBlankLines(lines)
        IN /\ Len(dialect_out) = Cardinality(kept)
           /\ \A i \in kept :
                  LET r == dialect_out[RankIn(kept, i)]
                      t == Trim(lines[i])
                      tab_pos == Find(t, "\t")
                      epoch == ParseI64(SubSeq(t, 1, tab_pos - 1))
                  IN IF tab_pos > 0 /\ IsSome(epoch)
                     THEN r.timestamp = epoch /\ r.command = SubSeq(t, tab_pos + 1, Len(t))
                     ELSE r.timestamp = None /\ r.command = t

IsCmdLine(line) == StartsWith(line, CmdMarker)

IsWhenLine(line) ==
    /\ StartsWith(line, WhenMarker)
    /\ Len(line) > Len(WhenMarker)
    /\ AllDigits(SubSeq(line, Len(WhenMarker) + 1, Len(line)))

\* C13: in parse_fish_history a '  when: <epoch>' line after a '- cmd: X'
\* line attaches the epoch to the pending record: the record of X has
\* timestamp E.
C13_FishWhenAttaches ==
    ReadOk({"Fish"}) =>
        LET lines == hist_file.lines
            cmds == {i \in 1..Len(lines) : IsCmdLine(lines[i])}
        IN \A i \in cmds :
               (i < Len(lines) /\ IsWhenLine(lines[i + 1])) =>
                   /\ RankIn(cmds, i) <= Len(dialect_out)
                   /\ LET r == dialect_out[RankIn(cmds, i)]
                      IN /\ r.command = SubSeq(lines[i], Len(CmdMarker) + 1, Len(lines[i]))
                         /\ r.timestamp = Some(DecimalValue(SubSeq(lines[i + 1],
                                                  Len(WhenMarker) + 1, Len(lines[i + 1]))))

\* C15: with a modification time `anchor` and n lines, the record of line i
\* (from 0) of a timestamp-less dialect has timestamp anchor - (n-1-i) minutes,
\* so the last line has the anchor and the timestamps increase with the line.
C15_InferredFromLastLine ==
    (ReadOk(InferredShells) /\ IsSome(mtime)) =>
        LET lines == hist_file.lines
            n == Len(lines)
            kept == NonBlankLines(lines)
        IN /\ Len(dialect_out) = Cardinality(kept)
           /\ \A i \in kept :
                  dialect_out[RankIn(kept, i)].timestamp = Some(Unwrap(mtime) - 60 * (n - i))

HasBar(line) == \E i \in 1..Len(line) : line[i] = "|"

\* the text before and after the first '|'
BeforeBar(line) == SubSeq(line, 1, Find(line, "|") - 1)
AfterBar(line) == SubSeq(line, Find(line, "|") + 1, Len(line))

\* C16: parse_heist_live_history produces a record only for a line with a
\* '|' whose text before the first '|' parses as a timestamp; every record
\* carries that timestamp and the text after the first '|' as its command.
C16_LiveSkipsUnparseable ==
    (parse_result = "Ok" /\ live_file.exists) =>
        LET lines == live_file.lines
            valid == {i \in 1..Len(lines) :
                         HasBar(lines[i]) /\ IsSome(ParseLiveTimestamp(BeforeBar(lines[i])))}
        IN /\ Len(live_out) = Cardinality(valid)
           /\ \A i \in valid :
                  LET r == live_out[RankIn(valid, i)]
                  IN /\ r.timestamp = ParseLiveTimestamp(BeforeBar(lines[i]))
                     /\ IsTrimmed(r.command, AfterBar(lines[i]))

RecordSet(es) == {es[i] : i \in 1..Len(es)}

\* C14: for every dialect, when the history file does not exist the reader
\* returns an empty list and no error, and parse_history returns Ok with only
\* the live-log records (or the empty list).
C14_MissingFileIsEmptyOk ==
    (pc # "start" /\ home_ok /\ ~hist_file.exists) =>
        /\ parse_result = "Ok"
        /\ dialect_out = <<>>
        /\ RecordSet(entries) = RecordSet(live_out)
        /\ Len(entries) <= Len(live_out)

\* no history file, a live log with a record
C14_Witness ==
    /\ pc = "parsed"
    /\ home_ok
    /\ ~hist_file.exists
    /\ parse_result = "Ok"
    /\ live_out # <<>>
    /\ entries = live_out

----------------------------------------------------------------------------
(* SpecDetect: detect_shell on the value of SHELL *)

MaxFragments == 3  \* most fragments a value of SHELL is put together from

\* shell.contains(p)
Contains(s, p) == \E i \in 0..(Len(s) - Len(p)) : SubSeq(s, i + 1, i + Len(p)) = p

\* a fallback to the sh dialect
DefaultFallbackSh == "Sh"

\* the else branch, line 53
DefaultFallback == "Bash"

\* the chain with a csh test that does not look for "tcsh"
detect_shell_csh_unguarded(hint) ==
    IF Contains(hint, <<"z", "s", "h">>) THEN "Zsh"
    ELSE IF Contains(hint, <<"f", "i", "s", "h">>) THEN "Fish"
    ELSE IF Contains(hint, <<"c", "s", "h">>) THEN "Csh"
    ELSE IF Contains(hint, <<"t", "c", "s", "h">>) THEN "Tcsh"
    ELSE IF Contains(hint, <<"k", "s", "h">>) THEN "Ksh"
    ELSE IF Contains(hint, <<"d", "a", "s", "h">>) THEN "Dash"
    ELSE IF Contains(hint, <<"m", "k", "s", "h">>) THEN "Mksh"
    ELSE IF Contains(hint, <<"y", "a", "s", "h">>) THEN "Yash"
    ELSE IF Contains(hint, <<"o", "s", "h">>) THEN "Osh"
    ELSE IF Contains(hint, <<"s", "h">>) THEN "Sh"
    ELSE IF Contains(hint, <<"b", "a", "s", "h">>) THEN "Bash"
    ELSE DefaultFallback

\* detect_shell, the if-else chain of lines 30-54 on the value of SHELL
\* (the empty text when the variable is unset)
detect_shell(hint) ==
    IF Contains(hint, <<"z", "s", "h">>) THEN "Zsh"
    ELSE IF Contains(hint, <<"f", "i", "s", "h">>) THEN "Fish"
    ELSE IF Contains(hint, <<"c", "s", "h">>) /\ ~Contains(hint, <<"t", "c", "s", "h">>) THEN "Csh"
    ELSE IF Contains(hint, <<"t", "c", "s", "h">>) THEN "Tcsh"
    ELSE IF Contains(hint, <<"k", "s", "h">>) THEN "Ksh"
    ELSE IF Contains(hint, <<"d", "a", "s", "h">>) THEN "Dash"
    ELSE IF Contains(hint, <<"m", "k", "s", "h">>) THEN "Mksh"
    ELSE IF Contains(hint, <<"y", "a", "s", "h">>) THEN "Yash"
    ELSE IF Contains(hint, <<"o", "s", "h">>) THEN "Osh"
    ELSE IF Contains(hint, <<"s", "h">>) THEN "Sh"
    ELSE IF Contains(hint, <<"b", "a", "s", "h">>) THEN "Bash"
    ELSE DefaultFallback

\* pieces of values of SHELL: a directory, the parts of the dialect names and
\* a letter of no name
Fragments ==
    {<<"/", "b", "i", "n", "/">>,
     <<"b", "a">>,
     <<"s", "h">>,
     <<"z">>,
     <<"c">>,
     <<"t">>,
     <<"k">>,
     <<"m">>,
     <<"d", "a">>,
     <<"y", "a">>,
     <<"o">>,
     <<"f", "i">>,
     <<"x">>}

RECURSIVE Concat(_)
Concat(parts) == IF parts = <<>> THEN <<>> ELSE Head(parts) \o Concat(Tail(parts))

Hints == {Concat(parts) : parts \in SeqsUpTo(Fragments, MaxFragments)}

InitDetect ==
    /\ pc = "start"
    /\ Idle
    /\ dialect_out = <<>>
    /\ live_out = <<>>
    /\ entries = <<>>
    /\ NoLoop
    /\ env_shell \in Hints
    /\ top_n = 0
    /\ ranking = <<>>
    /\ flagged = <<>>
    /\ found = FALSE
    /\ NoStats
    /\ NoQuery
    /\ NoTui
    /\ NoDispatch
    /\ NoTabs

\* main, line 24: args.shell.clone().unwrap_or_else(detect_shell) without --shell
DetectShell ==
    /\ pc = "start"
    /\ shell' = detect_shell(env_shell)
    /\ pc' = "detected"
    /\ UNCHANGED <<hist_file, live_file, mtime, dialect_out, live_out, entries,
                   gap_minutes, idx, current, last_ts, sessions, tui_result>>
    /\ UNCHANGED <<home_ok, parse_result, env_shell, top_n, ranking, flagged, found>>
    /\ UNCHANGED <<statsVars, queryVars, tuiVars, dispatchVars, tabVars>>

NextDetect == DetectShell

SpecDetect == InitDetect /\ [][NextDetect]_vars

\* the dialect names other than "sh" and "bash"
OtherNames == {<<"z", "s", "h">>,
                <<"f", "i", "s", "h">>,
                <<"c", "s", "h">>,
                <<"t", "c", "s", "h">>,
                <<"k", "s", "h">>,
                <<"d", "a", "s", "h">>,
                <<"m", "k", "s", "h">>,
                <<"y", "a", "s", "h">>,
                <<"o", "s", "h">>}

\* C17: a hint that names bash, such as "/bin/bash" (which contains "bash" and
\* so "sh", and no other dialect name), is classified as the bash dialect, not
\* as another dialect through the "sh" check.
C17_BashHintIsBash ==
    (/\ pc = "detected"
     /\ Contains(env_shell, <<"b", "a", "s", "h">>)
     /\ \A name \in OtherNames : ~Contains(env_shell, name)) => shell = "Bash"

\* C18: detect_shell returns one of the eleven dialects for every hint, the
\* empty one included, and bash for a hint that contains no dialect name.
C18_DetectTotal ==
    pc = "detected" =>
        /\ shell \in Shells
        /\ (\A name \in OtherNames \cup {<<"s", "h">>, <<"b", "a", "s", "h">>} : ~Contains(env_shell, name))
               => shell = "Bash"

\* the hint of an unset SHELL
C18_Witness ==
    /\ pc = "detected"
    /\ env_shell = <<>>
    /\ shell = "Bash"

----------------------------------------------------------------------------
(* SpecAnalytics: the frequency ranking and flag_dangerous on a history slice *)

MaxHistory == 3  \* longest history slice handed to the analytics

\* number of leading characters of s that are not whitespace
RECURSIVE TokenRun(_)
TokenRun(s) ==
    IF s = <<>> \/ IsWhitespace(Head(s)) THEN 0 ELSE 1 + TokenRun(Tail(s))

\* entry.command.split_whitespace().next().unwrap_or("")
FirstToken(command) ==
    LET t == TrimStart(command)
    IN SubSeq(t, 1, TokenRun(t))

\* the keys of freq after the counting loop
Tokens(es) == {FirstToken(es[i].command) : i \in 1..Len(es)}

\* the value of freq[token] after the counting loop
Count(es, token) == Cardinality({i \in 1..Len(es) : FirstToken(es[i].command) = token})

\* freq.into_iter().collect(): the pairs of the map in the order its iterator
\* yields them, which is any order of the keys (the hasher is seeded per map)
IterationOrders(es) ==
    LET keys == Tokens(es)
        n == Cardinality(keys)
    IN {[k \in 1..n |-> [cmd |-> order[k], count |-> Count(es, order[k])]] :
            order \in {f \in [1..n -> keys] : \A a, b \in 1..n : a # b => f[a] # f[b]}}

\* the place of x in a list sorted by count descending: after every element
\* whose count is at least x's, as the stable sort_by leaves equal counts
RECURSIVE InsertByCount(_, _)
InsertByCount(sorted, x) ==
    IF sorted = <<>> THEN <<x>>
    ELSE IF Head(sorted).count >= x.count
         THEN <<Head(sorted)>> \o InsertByCount(Tail(sorted), x)
         ELSE <<x>> \o sorted

\* the pairs left in the order the map yields them
LeftInMapOrder(pairs) == pairs

\* freq_vec.sort_by(|a, b| b.1.cmp(&a.1))
RECURSIVE SortByCount(_)
SortByCount(pairs) ==
    IF pairs = <<>> THEN <<>>
    ELSE InsertByCount(SortByCount(SubSeq(pairs, 1, Len(pairs) - 1)), pairs[Len(pairs)])

\* into_iter().take(n)
Take(list, n) == SubSeq(list, 1, IF n < Len(list) THEN n ELSE Len(list))

\* the rows of the summary table: freq_vec.iter().take(10)
TuiTopRows == 10

\* let patterns = [ ... ], line 77
Patterns ==
    <<<<"r", "m", " ", "-", "r", "f">>,
      <<"r", "m", " ", "-", "r", " ", "/">>,
      <<"d", "d", " ", "i", "f", "=">>,
      <<"m", "k", "f", "s">>,
      <<":", "(", ")", "{", " ", ":", "|", ":", "&", " ", "}", ";", ":">>,
      <<"s", "h", "u", "t", "d", "o", "w", "n">>,
      <<"r", "e", "b", "o", "o", "t">>,
      <<"c", "u", "r", "l", " ", "|", " ", "s", "h">>,
      <<"w", "g", "e", "t", " ", "|", " ", "s", "h">>,
      <<"c", "h", "m", "o", "d", " ", "7", "7", "7", " ", "/">>,
      <<"c", "h", "o", "w", "n", " ", "r", "o", "o", "t">>,
      <<">", " ", "/", "d", "e", "v", "/", "s", "d", "a">>,
      <<"/", "d", "e", "v", "/", "s", "d", "a">>,
      <<":", "(", ")", "{", " ", ":", "|", ":", " ", "&", " ", "}", ";", ":">>,
      <<"r", "m", " ", "-", "r", "f", " ", "-", "-", "n", "o", "-", "p", "r", "e", "s", "e", "r", "v", "e", "-", "r", "o", "o", "t">>,
      <<"p", "o", "w", "e", "r", "o", "f", "f">>,
      <<"h", "a", "l", "t">>,
      <<"i", "n", "i", "t", " ", "0">>,
      <<"m", "k", "f", "s", ".", "e", "x", "t">>,
      <<"d", "d", " ", "o", "f", "=", "/", "d", "e", "v", "/">>,
      <<"m", "v", " ", "/">>,
      <<"c", "p", " ", "/", "d", "e", "v", "/", "n", "u", "l", "l">>,
      <<"y", "e", "s", " ", "|", " ", "r", "m">>,
      <<"y", "e", "s", " ", "|", " ", "d", "d">>,
      <<"y", "e", "s", " ", "|", " ", "m", "k", "f", "s">>>>

\* the inner loop from pattern k on without its break: a line for every
\* pattern the command contains
RECURSIVE ScanPatternsNoBreak(_, _)
ScanPatternsNoBreak(command, k) ==
    IF k > Len(Patterns) THEN <<>>
    ELSE IF Contains(command, Patterns[k])
         THEN <<[command |-> command, pattern |-> Patterns[k]]>>
                  \o ScanPatternsNoBreak(command, k + 1)
         ELSE ScanPatternsNoBreak(command, k + 1)

\* the inner loop of flag_dangerous from pattern k on (lines 82-88): the line
\* printed for the first pattern the command contains, then break
RECURSIVE ScanPatterns(_, _)
ScanPatterns(command, k) ==
    IF k > Len(Patterns) THEN <<>>
    ELSE IF Contains(command, Patterns[k])
         THEN <<[command |-> command, pattern |-> Patterns[k]]>>
         ELSE ScanPatterns(command, k + 1)

\* the outer loop of flag_dangerous (lines 81-89): the lines printed, in order
RECURSIVE FlagLoop(_)
FlagLoop(es) ==
    IF es = <<>> THEN <<>>
    ELSE ScanPatterns(Head(es).command, 1) \o FlagLoop(Tail(es))

AnalyticsCommands ==
    {<<"l", "s">>,
     <<"l", "s", " ", "-", "l", "a">>,
     <<" ", "p", "w", "d">>,
     <<"c", "a", "t">>,
     <<"r", "m", " ", "-", "r", "f", " ", "/">>,
     <<"r", "m", " ", "-", "r", "f", " ", "-", "-", "n", "o", "-", "p", "r", "e", "s", "e", "r", "v", "e", "-", "r", "o", "o", "t", " ", "/">>,
     <<"d", "d", " ", "i", "f", "=", "/", "d", "e", "v", "/", "s", "d", "a">>,
     <<"r", "e", "b", "o", "o", "t">>}

TopChoices == {1, 2, 3}

InitAnalytics ==
    /\ pc = "start"
    /\ Idle
    /\ dialect_out = <<>>
    /\ live_out = <<>>
    /\ entries \in SeqsUpTo({HistoryEntry(None, c) : c \in AnalyticsCommands}, MaxHistory)
    /\ NoLoop
    /\ env_shell = <<>>
    /\ top_n \in TopChoices
    /\ ranking = <<>>
    /\ flagged = <<>>
    /\ found = FALSE
    /\ NoStats
    /\ NoQuery
    /\ NoTui
    /\ NoDispatch
    /\ NoTabs

\* analyze_history with --top N (lines 186-190 and 248-261)
AnalyzeTop ==
    /\ pc = "start"
    /\ IF entries = <<>>
       THEN ranking' = <<>>
       ELSE \E freq_vec \in IterationOrders(entries) :
                ranking' = Take(SortByCount(freq_vec), top_n)
    /\ pc' = "ranked"
    /\ UNCHANGED <<shell, hist_file, live_file, mtime, dialect_out, live_out, entries,
                   gap_minutes, idx, current, last_ts, sessions, tui_result>>
    /\ UNCHANGED <<home_ok, parse_result, env_shell, top_n, flagged, found>>
    /\ UNCHANGED <<statsVars, queryVars, tuiVars, dispatchVars, tabVars>>

\* run_tui: the cached summary (ui/mod.rs 147-157) and the rows drawn from it
TuiSummary ==
    /\ pc = "start"
    /\ \E freq_vec \in IterationOrders(entries) :
           ranking' = Take(SortByCount(freq_vec), TuiTopRows)
    /\ pc' = "summarized"
    /\ UNCHANGED <<shell, hist_file, live_file, mtime, dialect_out, live_out, entries,
                   gap_minutes, idx, current, last_ts, sessions, tui_result>>
    /\ UNCHANGED <<home_ok, parse_result, env_shell, top_n, flagged, found>>
    /\ UNCHANGED <<statsVars, queryVars, tuiVars, dispatchVars, tabVars>>

\* flag_dangerous(history)
FlagDangerous ==
    /\ pc = "start"
    /\ flagged' = FlagLoop(entries)
    /\ found' = (FlagLoop(entries) # <<>>)
    /\ pc' = "flagged"
    /\ UNCHANGED <<shell, hist_file, live_file, mtime, dialect_out, live_out, entries,
                   gap_minutes, idx, current, last_ts, sessions, tui_result>>
    /\ UNCHANGED <<home_ok, parse_result, env_shell, top_n, ranking>>
    /\ UNCHANGED <<statsVars, queryVars, tuiVars, dispatchVars, tabVars>>

NextAnalytics == AnalyzeTop \/ TuiSummary \/ FlagDangerous

SpecAnalytics == InitAnalytics /\ [][NextAnalytics]_vars

\* the place in the slice where a token first appears
FirstAppearance(es, token) ==
    Min({i \in 1..Len(es) : FirstToken(es[i].command) = token})

\* token a is listed before token b: a higher count, or the same count and an
\* earlier first appearance
RanksBefore(es, a, b) ==
    \/ Count(es, a) > Count(es, b)
    \/ Count(es, a) = Count(es, b) /\ FirstAppearance(es, a) < FirstAppearance(es, b)

\* C19: the top-N listing (CLI --top and the TUI summary) is a function of the
\* slice alone: the tokens with their counts, by count descending and, among
\* equal counts, in the order of first appearance, cut to the N first.
C19_TopNDeterministic ==
    (pc \in {"ranked", "summarized"} /\ entries # <<>>) =>
        LET n == IF pc = "ranked" THEN top_n ELSE TuiTopRows
            keys == Tokens(entries)
            listed == {ranking[i].cmd : i \in 1..Len(ranking)}
        IN /\ Len(ranking) = (IF n < Cardinality(keys) THEN n ELSE Cardinality(keys))
           /\ \A i \in 1..Len(ranking) :
                  /\ ranking[i].cmd \in keys
                  /\ ranking[i].count = Count(entries, ranking[i].cmd)
           /\ \A i, j \in 1..Len(ranking) :
                  i < j => RanksBefore(entries, ranking[i].cmd, ranking[j].cmd)
           /\ \A a \in listed, b \in keys \ listed : RanksBefore(entries, a, b)

\* the patterns a command contains, as places in the catalog
Matching(command) == {k \in 1..Len(Patterns) : Contains(command, Patterns[k])}

\* C20: flag_dangerous reports a command at most once, exactly when it
\* contains a catalog entry, with the earliest entry in catalog order that it
\* contains.
C20_FlaggedOnceWithEarliest ==
    pc = "flagged" =>
        LET hits == {i \in 1..Len(entries) : Matching(entries[i].command) # {}}
        IN /\ Len(flagged) = Cardinality(hits)
           /\ \A i \in hits :
                  LET line == flagged[RankIn(hits, i)]
                  IN /\ line.command = entries[i].command
                     /\ line.pattern = Patterns[Min(Matching(entries[i].command))]
           /\ found = (hits # {})

\* a command that contains two catalog entries, after one that contains none
C20_Witness ==
    /\ pc = "flagged"
    /\ Len(entries) = 2
    /\ Matching(entries[1].command) = {}
    /\ Cardinality(Matching(entries[2].command)) >= 2
    /\ Len(flagged) = 1
    /\ found

----------------------------------------------------------------------------
(* SpecStats: per_directory_stats, heatmap_stats and suggest_aliases on a slice *)

MaxStats == 3  \* longest slice handed to the statistics

\* String::from("~"), line 100
Tilde == <<"~">>

CdPrefix == <<"c", "d", " ">>

\* *map.entry(key).or_insert(0) += 1
Increment(map, key) ==
    IF key \in DOMAIN map THEN [map EXCEPT ![key] = @ + 1] ELSE map @@ (key :> 1)

\* a loop body that counts a cd command under the directory it leaves
DirIterOldCursor(st, entry) ==
    IF StartsWith(entry.command, CdPrefix)
    THEN [dir_counts |-> Increment(st.dir_counts, st.last_dir),
          last_dir |-> Trim(From(entry.command, 3))]
    ELSE [dir_counts |-> Increment(st.dir_counts, st.last_dir), last_dir |-> st.last_dir]

\* the loop body of per_directory_stats, lines 103-109
DirIter(st, entry) ==
    IF StartsWith(entry.command, CdPrefix)
    THEN LET dir == Trim(From(entry.command, 3))
         IN [dir_counts |-> Increment(st.dir_counts, dir), last_dir |-> dir]
    ELSE [dir_counts |-> Increment(st.dir_counts, st.last_dir), last_dir |-> st.last_dir]

RECURSIVE DirLoop(_, _)
DirLoop(st, es) == IF es = <<>> THEN st ELSE DirLoop(DirIter(st, Head(es)), Tail(es))

\* dir_counts after the loop of per_directory_stats
per_directory_stats(history) == DirLoop([dir_counts |-> <<>>, last_dir |-> Tilde], history).dir_counts

\* the local clock reading of the instant t, in seconds since 1970-01-01T00:00 local
LocalSeconds(t, offset) == t + offset

\* a weekday counted from Sunday: 1970-01-01 was a Thursday
WeekdayFromSunday(secs) == ((secs \div 86400) + 4) % 7

\* ts.weekday().num_days_from_monday(): 1970-01-01 was a Thursday
Weekday(secs) == ((secs \div 86400) + 3) % 7

\* ts.hour()
Hour(secs) == (secs % 86400) \div 3600

\* ts.date_naive(), as days since 1970-01-01
DateNaive(secs) == secs \div 86400

\* the loop body of heatmap_stats, lines 156-160
HeatIter(map, entry, offset) ==
    IF IsSome(entry.timestamp)
    THEN LET local == LocalSeconds(Unwrap(entry.timestamp), offset)
             wd == Weekday(local)
             hr == Hour(local)
         IN [map EXCEPT ![wd][hr] = @ + 1]
    ELSE map

RECURSIVE HeatLoop(_, _, _)
HeatLoop(map, es, offset) ==
    IF es = <<>> THEN map ELSE HeatLoop(HeatIter(map, Head(es), offset), Tail(es), offset)

\* heatmap after the loop of heatmap_stats
heatmap_stats(history, offset) == HeatLoop(ZeroHeatmap, history, offset)

\* format!("{}", n) of a usize
RECURSIVE ToDecimal(_)
ToDecimal(n) ==
    IF n < 10 THEN <<Digits[n + 1]>> ELSE ToDecimal(n \div 10) \o <<Digits[(n % 10) + 1]>>

\* format!("a{}", alias_num)
AliasName(alias_num) == <<"a">> \o ToDecimal(alias_num)

\* the keys of freq in suggest_aliases: the trimmed commands longer than 15
LongCommands(es) ==
    {Trim(es[i].command) : i \in {j \in 1..Len(es) : Len(Trim(es[j].command)) > 15}}

LongCount(es, cmd) == Cardinality({i \in 1..Len(es) : Trim(es[i].command) = cmd})

\* freq.into_iter().collect() in suggest_aliases: the pairs in any order of the keys
AliasOrders(es) ==
    LET keys == LongCommands(es)
        n == Cardinality(keys)
    IN {[k \in 1..n |-> [cmd |-> order[k], count |-> LongCount(es, order[k])]] :
            order \in {f \in [1..n -> keys] : \A a, b \in 1..n : a # b => f[a] # f[b]}}

\* the lines suggest_aliases prints for a sorted freq_vec: take(10), named a1, a2, ...
AliasLines(freq_vec) ==
    LET top == Take(freq_vec, 10)
    IN [k \in 1..Len(top) |-> [alias |-> AliasName(k), cmd |-> top[k].cmd, count |-> top[k].count]]

StatsCommands ==
    {<<"l", "s">>,
     <<"c", "d">>,
     <<"c", "d", " ", "/", "t", "m", "p">>,
     <<"c", "d", " ", " ", "x", " ">>,
     <<"g", "i", "t", " ", "s", "t", "a", "t", "u", "s", " ", "-", "-", "s", "h", "o", "r", "t">>,
     <<" ", "g", "i", "t", " ", "s", "t", "a", "t", "u", "s", " ", "-", "-", "s", "h", "o", "r", "t">>,
     <<"d", "o", "c", "k", "e", "r", " ", "p", "s", " ", "-", "-", "a", "l", "l", " ", "-", "q">>,
     <<"l", "s", " ", "-", "l", "a", " ", "/", "v", "a", "r", "/", "l", "o", "g">>}

\* Monday 1970-01-05 12:00, Tuesday 1970-01-06 13:00, Sunday 1970-01-04 23:30 (UTC)
StatsInstants == {388800, 478800, 343800}

StatsRecords ==
    {HistoryEntry(None, c) : c \in StatsCommands}
        \cup {HistoryEntry(Some(t), ls) : t \in StatsInstants}

OffsetChoices == {0, 3600}

InitStats ==
    /\ pc = "start"
    /\ Idle
    /\ dialect_out = <<>>
    /\ live_out = <<>>
    /\ entries \in SeqsUpTo(StatsRecords, MaxStats)
    /\ NoLoop
    /\ NoAnalytics
    /\ utc_offset \in OffsetChoices
    /\ dir_counts = <<>>
    /\ heatmap = ZeroHeatmap
    /\ aliases = <<>>
    /\ NoQuery
    /\ NoTui
    /\ NoDispatch
    /\ NoTabs

\* per_directory_stats(history)
PerDirectoryStats ==
    /\ pc = "start"
    /\ dir_counts' = per_directory_stats(entries)
    /\ pc' = "directories"
    /\ UNCHANGED <<shell, hist_file, live_file, mtime, dialect_out, live_out, entries,
                   gap_minutes, idx, current, last_ts, sessions, tui_result>>
    /\ UNCHANGED <<home_ok, parse_result, env_shell, top_n, ranking, flagged, found>>
    /\ UNCHANGED <<utc_offset, heatmap, aliases, queryVars, tuiVars, dispatchVars, tabVars>>

\* heatmap_stats(history)
HeatmapStats ==
    /\ pc = "start"
    /\ heatmap' = heatmap_stats(entries, utc_offset)
    /\ pc' = "heatmap"
    /\ UNCHANGED <<shell, hist_file, live_file, mtime, dialect_out, live_out, entries,
                   gap_minutes, idx, current, last_ts, sessions, tui_result>>
    /\ UNCHANGED <<home_ok, parse_result, env_shell, top_n, ranking, flagged, found>>
    /\ UNCHANGED <<utc_offset, dir_counts, aliases, queryVars, tuiVars, dispatchVars, tabVars>>

\* suggest_aliases(history)
SuggestAliases ==
    /\ pc = "start"
    /\ \E freq_vec \in AliasOrders(entries) :
           aliases' = AliasLines(SortByCount(freq_vec))
    /\ pc' = "aliases"
    /\ UNCHANGED <<shell, hist_file, live_file, mtime, dialect_out, live_out, entries,
                   gap_minutes, idx, current, last_ts, sessions, tui_result>>
    /\ UNCHANGED <<home_ok, parse_result, env_shell, top_n, ranking, flagged, found>>
    /\ UNCHANGED <<utc_offset, dir_counts, heatmap, queryVars, tuiVars, dispatchVars, tabVars>>

NextStats == PerDirectoryStats \/ HeatmapStats \/ SuggestAliases

SpecStats == InitStats /\ [][NextStats]_vars

----------------------------------------------------------------------------
(* Statistics properties, under SpecStats *)

\* the sum of the values of a map with finite domain
RECURSIVE SumOver(_, _)
SumOver(map, keys) ==
    IF keys = {} THEN 0
    ELSE LET k == CHOOSE x \in keys : TRUE
         IN map[k] + SumOver(map, keys \ {k})

IsCd(command) ==
    /\ Len(command) >= 3
    /\ SubSeq(command, 1, 3) = CdPrefix

\* the place of the last cd command among the first i records, 0 when none
LastCd(es, i) == Max({0} \cup {j \in 1..i : IsCd(es[j].command)})

\* record i is attributed to directory d: the target of the last cd command
\* up to and including record i, '~' when there is none
AttributedTo(es, i, d) ==
    LET j == LastCd(es, i)
    IN IF j = 0 THEN d = Tilde
       ELSE IsTrimmed(d, SubSeq(es[j].command, 4, Len(es[j].command)))

\* C21: per_directory_stats keeps a cursor that starts at '~'; 'cd <dir>' sets
\* it to <dir> and is counted under <dir>, every other command is counted
\* under the cursor and leaves it; the counts sum to the number of records.
C21_PerDirectoryCursor ==
    pc = "directories" =>
        /\ \A i \in 1..Len(entries) : \E d \in DOMAIN dir_counts : AttributedTo(entries, i, d)
        /\ \A d \in DOMAIN dir_counts :
               /\ dir_counts[d] >= 1
               /\ dir_counts[d] = Cardinality({i \in 1..Len(entries) : AttributedTo(entries, i, d)})
        /\ SumOver(dir_counts, DOMAIN dir_counts) = Len(entries)

\* a command before a cd, the cd, and a command after it
C21_Witness ==
    /\ pc = "directories"
    /\ Len(entries) = 3
    /\ ~IsCd(entries[1].command)
    /\ IsCd(entries[2].command)
    /\ ~IsCd(entries[3].command)
    /\ Tilde \in DOMAIN dir_counts
    /\ dir_counts[Tilde] = 1
    /\ \E d \in DOMAIN dir_counts : dir_counts[d] = 2

\* the local weekday (Monday = 0) and hour of a timed record: day 4 after
\* 1970-01-01 was a Monday
AtCell(e, offset, wd, hr) ==
    /\ Timed(e)
    /\ LET local == Unwrap(e.timestamp) + offset
           sinceMidnight == local % 86400
       IN /\ (local - sinceMidnight - 86400 * (4 + wd)) % (7 * 86400) = 0
          /\ 3600 * hr <= sinceMidnight
          /\ sinceMidnight < 3600 * (hr + 1)

CellSum(map) == SumOver([wd \in 0..6 |-> SumOver(map[wd], 0..23)], 0..6)

\* C22: heatmap_stats computes a 7x24 matrix whose cell [weekday][hour] is the
\* number of timed records with that local weekday (Monday = 0) and hour;
\* untimed records count nowhere, the cells sum to the number of timed records
\* and the empty slice gives the all-zero matrix.
C22_HeatmapCells ==
    pc = "heatmap" =>
        /\ DOMAIN heatmap = 0..6
        /\ \A wd \in 0..6 :
               /\ DOMAIN heatmap[wd] = 0..23
               /\ \A hr \in 0..23 :
                      heatmap[wd][hr] =
                          Cardinality({i \in 1..Len(entries) : AtCell(entries[i], utc_offset, wd, hr)})
        /\ CellSum(heatmap) = Len(TimedOnly(entries))
        /\ entries = <<>> => heatmap = ZeroHeatmap

\* records at Monday 12:00 and Tuesday 13:00 and an untimed one: exactly two
\* cells equal to 1
C22_Witness ==
    /\ pc = "heatmap"
    /\ utc_offset = 0
    /\ Len(entries) = 3
    /\ Len(TimedOnly(entries)) = 2
    /\ heatmap[0][12] = 1
    /\ heatmap[1][13] = 1
    /\ CellSum(heatmap) = 2

FirstLong(es, cmd) == Min({i \in 1..Len(es) : Trim(es[i].command) = cmd})

\* C23: suggest_aliases emits at most 10 suggestions, each a distinct command
\* text of trimmed length over 15 with the number of records of that trimmed
\* text, in non-increasing count order with ties in first-appearance order,
\* the k-th named 'a<k>'.
C23_AliasSuggestions ==
    pc = "aliases" =>
        /\ Len(aliases) <= 10
        /\ \A i \in 1..Len(aliases) :
               /\ Len(aliases[i].cmd) > 15
               /\ \E j \in 1..Len(entries) : IsTrimmed(aliases[i].cmd, entries[j].command)
               /\ aliases[i].count =
                      Cardinality({j \in 1..Len(entries) : IsTrimmed(aliases[i].cmd, entries[j].command)})
               /\ aliases[i].alias = AliasName(i)
        /\ \A i, j \in 1..Len(aliases) :
               i < j =>
                   /\ aliases[i].cmd # aliases[j].cmd
                   /\ aliases[i].count >= aliases[j].count
                   /\ aliases[i].count = aliases[j].count =>
                          FirstLong(entries, aliases[i].cmd) < FirstLong(entries, aliases[j].cmd)

----------------------------------------------------------------------------
(* SpecQuery: analyze_history with the query options of the command line *)

MaxQuery == 2  \* longest history handed to analyze_history

EndsWith(s, suffix) ==
    /\ Len(s) >= Len(suffix)
    /\ SubSeq(s, Len(s) - Len(suffix) + 1, Len(s)) = suffix

\* the number of groups left open after the pattern text, -1 once a ')' closes
\* a group that was never opened
RECURSIVE OpenGroups(_, _)
OpenGroups(pat, depth) ==
    IF depth < 0 \/ pat = <<>> THEN depth
    ELSE OpenGroups(Tail(pat), CASE Head(pat) = "(" -> depth + 1
                                 [] Head(pat) = ")" -> depth - 1
                                 [] OTHER -> depth)

\* Regex::new(pat): None for a pattern that does not compile. The patterns of
\* the model are literal text with an optional '^' in front and '$' behind,
\* and text with an unclosed group.
RegexNew(pat) == IF OpenGroups(pat, 0) = 0 THEN Some(pat) ELSE None

\* re.is_match(text) for the patterns of the model (an unanchored search)
IsMatch(pat, text) ==
    LET front == Len(pat) >= 1 /\ pat[1] = "^"
        back == Len(pat) >= 1 /\ pat[Len(pat)] = "$"
        literal == SubSeq(pat, IF front THEN 2 ELSE 1, IF back THEN Len(pat) - 1 ELSE Len(pat))
    IN CASE front /\ back -> text = literal
         [] front /\ ~back -> StartsWith(text, literal)
         [] ~front /\ back -> EndsWith(text, literal)
         [] OTHER -> Contains(text, literal)

\* range.split(':').collect()
RECURSIVE Split(_, _)
Split(s, sep) ==
    LET at == Find(s, sep)
    IN IF at = 0 THEN <<s>> ELSE <<SubSeq(s, 1, at - 1)>> \o Split(SubSeq(s, at + 1, Len(s)), sep)

\* NaiveDate::parse_from_str(text, "%Y-%m-%d") as days since 1970-01-01, None
\* for an error. The date texts of the model are of the form dddd-dd-dd or
\* hold no digit at all.
ParseDate(text) ==
    IF /\ Len(text) = 10
       /\ \A i \in {1, 2, 3, 4, 6, 7, 9, 10} : IsDigit(text[i])
       /\ text[5] = "-"
       /\ text[8] = "-"
    THEN LET y == 100 * TwoDigits(text, 1) + TwoDigits(text, 3)
             m == TwoDigits(text, 6)
             d == TwoDigits(text, 9)
         IN IF m \in 1..12 /\ d \in 1..DaysInMonth(y, m) THEN Some(DaysFromCivil(y, m, d)) ELSE None
    ELSE None

\* a range test that lets every untimed record through
InRangeOrUntimed(e, start, end, offset) ==
    IsSome(e.timestamp) =>
        LET date == DateNaive(LocalSeconds(Unwrap(e.timestamp), offset))
        IN date >= start /\ date <= end

\* the closure of lines 207-214
InRange(e, start, end, offset) ==
    IF IsSome(e.timestamp)
    THEN LET date == DateNaive(LocalSeconds(Unwrap(e.timestamp), offset))
         IN date >= start /\ date <= end
    ELSE FALSE

\* lines 192-195: --filter
FilterStep(es, f) ==
    IF IsSome(f)
    THEN LET Keep(e) == StartsWith(e.command, Unwrap(f)) IN SelectSeq(es, Keep)
    ELSE es

\* lines 196-200: --search, None for the error of Regex::new
SearchStep(es, pat) ==
    IF IsSome(pat)
    THEN LET re == RegexNew(Unwrap(pat))
         IN IF IsSome(re)
            THEN LET Keep(e) == IsMatch(Unwrap(re), e.command) IN Some(SelectSeq(es, Keep))
            ELSE None
    ELSE Some(es)

\* lines 201-216: --range, None for the error of a date that does not parse;
\* a value that does not split in two parts leaves the list as it is
RangeStep(es, r, offset) ==
    IF IsSome(r)
    THEN LET parts == Split(Unwrap(r), ":")
         IN IF Len(parts) = 2
            THEN LET start == ParseDate(parts[1])
                     end == ParseDate(parts[2])
                 IN IF IsSome(start) /\ IsSome(end)
                    THEN LET Keep(e) == InRange(e, Unwrap(start), Unwrap(end), offset)
                         IN Some(SelectSeq(es, Keep))
                    ELSE None
            ELSE Some(es)
    ELSE Some(es)

\* lines 191-216: `filtered` when the analyses are reached, None for an error
Filtered(es, f, pat, r, offset) ==
    LET searched == SearchStep(FilterStep(es, f), pat)
    IN IF IsSome(searched) THEN RangeStep(Unwrap(searched), r, offset) ELSE None

CommandsOf(es) == [i \in 1..Len(es) |-> es[i].command]

QueryRecords ==
    {HistoryEntry(None, ls),
     HistoryEntry(None, <<"c", "d", " ", "/", "t", "m", "p">>),
     HistoryEntry(Some(0), ls),
     HistoryEntry(Some(84600), pwd),
     HistoryEntry(Some(90000), ls)}

FilterChoices == {None, Some(<<"l">>)}

SearchChoices == {None, Some(<<"^", "p">>), Some(<<"s">>), Some(<<"(">>)}

DateTexts == {<<"1", "9", "7", "0", "-", "0", "1", "-", "0", "1">>, <<"1", "9", "7", "0", "-", "0", "1", "-", "0", "2">>, <<"x">>}

RangeChoices ==
    {None, Some(<<"1", "9", "7", "0", "-", "0", "1", "-", "0", "1">>), Some(<<"1", "9", "7", "0", "-", "0", "1", "-", "0", "1">> \o <<":">> \o <<"1", "9", "7", "0", "-", "0", "1", "-", "0", "1">> \o <<":">> \o <<"1", "9", "7", "0", "-", "0", "1", "-", "0", "2">>)}
        \cup {Some(a \o <<":">> \o b) : a, b \in DateTexts \ {<<"x">>}}
        \cup {Some(<<"x", ":">> \o <<"1", "9", "7", "0", "-", "0", "1", "-", "0", "2">>), Some(<<"1", "9", "7", "0", "-", "0", "1", "-", "0", "1">> \o <<":", "x">>)}

\* a dispatch that tests the heatmap option before every other one
SelectAnalysisHeatmapFirst(fl, exp) ==
    IF "heatmap" \in fl THEN "heatmap"
    ELSE IF "suggest_aliases" \in fl THEN "suggest_aliases"
    ELSE IF "flag_dangerous" \in fl THEN "flag_dangerous"
    ELSE IF "per_directory" \in fl THEN "per_directory"
    ELSE IF "per_host" \in fl THEN "per_host"
    ELSE IF "time_of_day" \in fl THEN "time_of_day"
    ELSE IF "top" \in fl THEN "top"
    ELSE IF "session_summary" \in fl THEN "session_summary"
    ELSE IF IsSome(exp) THEN "export"
    ELSE "default"

\* analyze_history, lines 218-299: the chain of `if` blocks, each ending in
\* `return Ok(())`, runs the analysis of the first option that is set
SelectAnalysis(fl, exp) ==
    IF "suggest_aliases" \in fl THEN "suggest_aliases"
    ELSE IF "flag_dangerous" \in fl THEN "flag_dangerous"
    ELSE IF "per_directory" \in fl THEN "per_directory"
    ELSE IF "per_host" \in fl THEN "per_host"
    ELSE IF "time_of_day" \in fl THEN "time_of_day"
    ELSE IF "heatmap" \in fl THEN "heatmap"
    ELSE IF "top" \in fl THEN "top"
    ELSE IF "session_summary" \in fl THEN "session_summary"
    ELSE IF IsSome(exp) THEN "export"
    ELSE "default"

\* lines 276-290: the file the format names; `_` names none
ExportFile(fmt) ==
    IF fmt = "json" THEN {"heist_export.json"}
    ELSE IF fmt = "csv" THEN {"heist_export.csv"}
    ELSE {}

SummaryGapMinutes == 10  \* group_sessions(&filtered, 10)

QueryFlagChoices == {{"per_directory"}, {"heatmap"}, {}}

InitQuery ==
    /\ pc = "start"
    /\ Idle
    /\ dialect_out = <<>>
    /\ live_out = <<>>
    /\ entries \in SeqsUpTo(QueryRecords, MaxQuery)
    /\ NoLoop
    /\ NoAnalytics
    /\ utc_offset \in OffsetChoices
    /\ dir_counts = <<>>
    /\ heatmap = ZeroHeatmap
    /\ aliases = <<>>
    /\ filter \in FilterChoices
    /\ search \in SearchChoices
    /\ range \in RangeChoices
    /\ analysis = "none"
    /\ filtered = <<>>
    /\ analyze_result = "none"
    /\ printed = <<>>
    /\ NoTui
    /\ flags \in QueryFlagChoices
    /\ export = None
    /\ exported = {}
    /\ NoTabs

\* analyze_history(&history, &args): the early return of lines 186-190, the
\* query options, then the one analysis the options select; the tables of
\* per_host_stats and time_of_day_stats are printed and kept nowhere
AnalyzeHistory ==
    /\ pc = "start"
    /\ pc' = "analyzed"
    /\ LET passed == Filtered(entries, filter, search, range, utc_offset)
           sel == SelectAnalysis(flags, export)
       IN IF entries = <<>> \/ ~IsSome(passed)
          THEN /\ analyze_result' = IF entries = <<>> THEN "Ok" ELSE "Err"
               /\ UNCHANGED <<analysis, filtered, aliases, flagged, found, dir_counts,
                              heatmap, ranking, sessions, exported, printed>>
          ELSE LET list == Unwrap(passed)
               IN /\ filtered' = list
                  /\ analysis' = sel
                  /\ IF sel = "suggest_aliases"
                     THEN \E freq_vec \in AliasOrders(list) :
                              aliases' = AliasLines(SortByCount(freq_vec))
                     ELSE aliases' = aliases
                  /\ flagged' = IF sel = "flag_dangerous" THEN FlagLoop(list) ELSE flagged
                  /\ found' = IF sel = "flag_dangerous" THEN FlagLoop(list) # <<>> ELSE found
                  /\ dir_counts' = IF sel = "per_directory"
                                   THEN per_directory_stats(list) ELSE dir_counts
                  /\ heatmap' = IF sel = "heatmap"
                                THEN heatmap_stats(list, utc_offset) ELSE heatmap
                  /\ IF sel = "top"
                     THEN \E freq_vec \in IterationOrders(list) :
                              ranking' = Take(SortByCount(freq_vec), top_n)
                     ELSE ranking' = ranking
                  /\ sessions' = IF sel = "session_summary"
                                 THEN group_sessions(list, SummaryGapMinutes) ELSE sessions
                  /\ IF sel = "export" /\ ExportFile(Unwrap(export)) # {}
                     THEN \E created \in BOOLEAN :
                              /\ exported' = IF created THEN ExportFile(Unwrap(export))
                                             ELSE exported
                              /\ analyze_result' = IF created THEN "Ok" ELSE "Err"
                     ELSE /\ exported' = exported
                          /\ analyze_result' = "Ok"
                  /\ printed' = IF sel = "default" THEN CommandsOf(list) ELSE printed
    /\ UNCHANGED <<shell, hist_file, live_file, mtime, dialect_out, live_out, entries,
                   gap_minutes, idx, current, last_ts, tui_result>>
    /\ UNCHANGED <<home_ok, parse_result, env_shell, top_n>>
    /\ UNCHANGED <<utc_offset, filter, search, range, flags, export, tuiVars, tabVars>>

NextQuery == AnalyzeHistory

SpecQuery == InitQuery /\ [][NextQuery]_vars

----------------------------------------------------------------------------
(* SpecDispatch: analyze_history under every combination of two analysis    *)
(* options, and under all of them                                           *)

MaxDispatch == 2  \* longest history handed to analyze_history

AllFlags == {"suggest_aliases", "flag_dangerous", "per_directory", "per_host",
             "time_of_day", "heatmap", "top", "session_summary"}

DispatchFlagChoices == {fl \in SUBSET AllFlags : Cardinality(fl) <= 2} \cup {AllFlags}

ExportChoices == {None, Some("json"), Some("csv"), Some("xml")}

DispatchRecords ==
    {HistoryEntry(Some(300), ls),
     HistoryEntry(Some(4000), <<"r", "m", " ", "-", "r", "f", " ", "-", "-", "n", "o", "-", "p", "r", "e", "s", "e", "r", "v", "e", "-", "r", "o", "o", "t", " ", "/">>)}

InitDispatch ==
    /\ pc = "start"
    /\ Idle
    /\ dialect_out = <<>>
    /\ live_out = <<>>
    /\ entries \in SeqsUpTo(DispatchRecords, MaxDispatch)
    /\ NoLoop
    /\ env_shell = <<>>
    /\ top_n = 1
    /\ ranking = <<>>
    /\ flagged = <<>>
    /\ found = FALSE
    /\ NoStats
    /\ filter \in FilterChoices
    /\ search = None
    /\ range = None
    /\ analysis = "none"
    /\ filtered = <<>>
    /\ analyze_result = "none"
    /\ printed = <<>>
    /\ NoTui
    /\ flags \in DispatchFlagChoices
    /\ export \in ExportChoices
    /\ exported = {}
    /\ NoTabs

NextDispatch == AnalyzeHistory

SpecDispatch == InitDispatch /\ [][NextDispatch]_vars

\* the text is two dates of the form YYYY-MM-DD around its only ':'
ValidRange(text) ==
    \E k \in 1..Len(text) :
        /\ text[k] = ":"
        /\ \A j \in 1..Len(text) : text[j] = ":" => j = k
        /\ IsSome(ParseDate(SubSeq(text, 1, k - 1)))
        /\ IsSome(ParseDate(SubSeq(text, k + 1, Len(text))))

RangeStart(text) == Unwrap(ParseDate(SubSeq(text, 1, 10)))

RangeEnd(text) == Unwrap(ParseDate(SubSeq(text, 12, 21)))

\* the record satisfies every active query option
Selected(e) ==
    /\ IsSome(filter) =>
           /\ Len(e.command) >= Len(Unwrap(filter))
           /\ SubSeq(e.command, 1, Len(Unwrap(filter))) = Unwrap(filter)
    /\ IsSome(search) => IsMatch(Unwrap(search), e.command)
    /\ IsSome(range) =>
           /\ Timed(e)
           /\ RangeStart(Unwrap(range)) * 86400 <= Unwrap(e.timestamp) + utc_offset
           /\ Unwrap(e.timestamp) + utc_offset < (RangeEnd(Unwrap(range)) + 1) * 86400

\* C24: the records analyze_history passes to the selected analysis are the
\* order-preserving subsequence of the history that satisfies every active
\* option: the filter prefix, the search pattern and, for a valid range
\* start:end, being timed with a local date from start to end.
C24_FilteredIsSelection ==
    (/\ pc = "analyzed"
     /\ entries # <<>>
     /\ analyze_result = "Ok"
     /\ IsSome(range) => ValidRange(Unwrap(range))) =>
        LET kept == {i \in 1..Len(entries) : Selected(entries[i])}
        IN /\ Len(filtered) = Cardinality(kept)
           /\ \A i \in kept : filtered[RankIn(kept, i)] = entries[i]
           /\ analysis = "default" => printed = CommandsOf(filtered)
           /\ analysis = "heatmap" => CellSum(heatmap) = Len(TimedOnly(filtered))
           /\ analysis = "per_directory" => SumOver(dir_counts, DOMAIN dir_counts) = Len(filtered)

\* a range that keeps one of two records and drops an untimed one
C24_Witness ==
    /\ pc = "analyzed"
    /\ analyze_result = "Ok"
    /\ IsSome(range)
    /\ ValidRange(Unwrap(range))
    /\ IsSome(filter)
    /\ Len(entries) = 2
    /\ ~Timed(entries[1])
    /\ Timed(entries[2])
    /\ filtered = <<entries[2]>>

\* C25: for a non-empty history, a range value that is not two valid dates
\* around a single ':' makes analyze_history return an error.
C25_BadRangeIsError ==
    (/\ pc = "analyzed"
     /\ entries # <<>>
     /\ IsSome(range)
     /\ ~ValidRange(Unwrap(range))) => analyze_result = "Err"

\* C26: for every history, the empty one included, an invalid search pattern
\* makes analyze_history return an error and run no analysis.
C26_BadPatternIsError ==
    (/\ pc = "analyzed"
     /\ IsSome(search)
     /\ ~IsSome(RegexNew(Unwrap(search)))) =>
        /\ analyze_result = "Err"
        /\ filtered = <<>>
        /\ printed = <<>>
        /\ dir_counts = <<>>
        /\ heatmap = ZeroHeatmap

----------------------------------------------------------------------------
(* More of detect_shell, under SpecDetect *)

ContainsNeither(hint) == ~Contains(hint, <<"z", "s", "h">>) /\ ~Contains(hint, <<"f", "i", "s", "h">>)

\* C30: detect_shell classifies a hint that contains "tcsh" (and neither "zsh"
\* nor "fish") as tcsh, never as csh, and a hint that contains "csh" but not
\* "tcsh" (and neither "zsh" nor "fish") as csh.
C30_TcshBeforeCsh ==
    (pc = "detected" /\ ContainsNeither(env_shell)) =>
        /\ Contains(env_shell, <<"t", "c", "s", "h">>) => shell = "Tcsh"
        /\ (Contains(env_shell, <<"c", "s", "h">>) /\ ~Contains(env_shell, <<"t", "c", "s", "h">>)) => shell = "Csh"

\* a hint that names tcsh
C30_Witness ==
    /\ pc = "detected"
    /\ ContainsNeither(env_shell)
    /\ Contains(env_shell, <<"t", "c", "s", "h">>)
    /\ shell = "Tcsh"

----------------------------------------------------------------------------
(* SpecTui: run_tui's refresh thread and render loop around history_data *)

MaxTuiLines == 1  \* most lines in the history file and in the live log under run_tui

\* Mutex::lock that never waits
CanLockAlways(held) == TRUE

\* Mutex::lock returns when no other guard of the mutex is alive
CanLock(held) == ~held

\* the refresh thread has its guard `data`: from line 81 to the end of the
\* iteration, the sleep of line 83 included
RefreshHolds == refresh_pc \in {"write", "sleep"}

\* the render loop has its guard `history`: from line 176 to the end of the
\* iteration
RenderHolds == render_pc \in {"draw", "input"}

\* lines 75-80: parse_history, an empty list in place of its error, then the
\* records of the live log appended
RefreshedHistory(sh, home, file, mt, live) ==
    (IF ReaderError(home, file) THEN <<>> ELSE parse_history(sh, file, mt, live))
        \o parse_heist_live_history(live)

TuiHints == {<<>>, <<"z", "s", "h">>}

TuiHistLines == {<<":", " ", "0", ":", "0", ";", "l", "s">>, <<":", " ", "3", "0", "0", ":", "0", ";", "p", "w", "d">>}

TuiLiveLines == {<<"1", "9", "7", "0", "-", "0", "1", "-", "0", "1", "T", "0", "0", ":", "0", "5", ":", "0", "0", "+", "0", "0", "0", "0", "|", "l", "s">>, <<"1", "9", "7", "0", "-", "0", "1", "-", "0", "1", "T", "0", "1", ":", "0", "0", ":", "0", "0", "+", "0", "1", "0", "0", "|", "p", "w", "d">>, <<"s", "o", "o", "n", "|", "l", "s">>}

MissingFile == [exists |-> FALSE, readable |-> FALSE, lines |-> <<>>]

TuiFiles(lineSet) ==
    {MissingFile} \cup {[exists |-> TRUE, readable |-> TRUE, lines |-> l] :
                            l \in SeqsUpTo(lineSet, MaxTuiLines)}

TuiBashLines == {<<"l", "s">>}

TuiLinesFor(sh) == IF sh = "Zsh" THEN TuiHistLines ELSE TuiBashLines

\* the values of args.shell that differ from None
ForcedShells == {"Bash", "Zsh"}

\* run_tui after thread::spawn: main has parsed the history of args.shell or,
\* without it, of the detected shell (main.rs line 22), run_tui has detected
\* the shell anew (line 69), the session list of lines 110-136 was built
\* without a panic, the slot holds a clone of the history
InitTui ==
    /\ pc = "tui"
    /\ env_shell \in TuiHints
    /\ tui_shell = detect_shell(env_shell)
    /\ shell \in {detect_shell(env_shell)} \cup ForcedShells
    /\ home_ok = TRUE
    /\ hist_file \in TuiFiles(TuiLinesFor(shell))
    /\ tui_file \in (IF shell = tui_shell THEN {hist_file} ELSE TuiFiles(TuiLinesFor(tui_shell)))
    /\ live_file \in TuiFiles(TuiLiveLines)
    /\ mtime = None
    /\ parse_result = "Ok"
    /\ dialect_out = ReadDialect(shell, hist_file, mtime)
    /\ live_out = parse_heist_live_history(live_file)
    /\ entries = parse_history(shell, hist_file, mtime, live_file)
    /\ ~TuiSessions(entries).panicked
    /\ NoLoop
    /\ top_n = 0
    /\ ranking = <<>>
    /\ flagged = <<>>
    /\ found = FALSE
    /\ NoStats
    /\ NoQuery
    /\ slot = entries
    /\ refresh_pc = "parse"
    /\ render_pc = "lock"
    /\ new_history = <<>>
    /\ drawn = None
    /\ NoDispatch
    /\ NoTabs

TuiFrame ==
    /\ UNCHANGED <<pc, shell, mtime, dialect_out, live_out, entries,
                   gap_minutes, idx, current, last_ts, sessions, tui_result>>
    /\ UNCHANGED <<home_ok, env_shell, top_n, ranking, flagged, found>>
    /\ UNCHANGED <<statsVars, queryVars, tui_shell, dispatchVars, tabVars>>

\* lines 75-80 of the refresh thread
RefreshParse ==
    /\ refresh_pc = "parse"
    /\ render_pc # "done"
    /\ parse_result' = IF ReaderError(home_ok, tui_file) THEN "Err" ELSE "Ok"
    /\ new_history' = RefreshedHistory(tui_shell, home_ok, tui_file, mtime, live_file)
    /\ refresh_pc' = "lock"
    /\ UNCHANGED <<hist_file, tui_file, live_file, slot, render_pc, drawn>>
    /\ TuiFrame

\* line 81: history_data_clone.lock().unwrap()
RefreshLock ==
    /\ refresh_pc = "lock"
    /\ render_pc # "done"
    /\ CanLock(RenderHolds)
    /\ refresh_pc' = "write"
    /\ UNCHANGED <<hist_file, tui_file, live_file, parse_result, slot, render_pc, new_history, drawn>>
    /\ TuiFrame

\* line 82: *data = new_history
RefreshWrite ==
    /\ refresh_pc = "write"
    /\ render_pc # "done"
    /\ slot' = new_history
    /\ refresh_pc' = "sleep"
    /\ UNCHANGED <<hist_file, tui_file, live_file, parse_result, render_pc, new_history, drawn>>
    /\ TuiFrame

\* lines 83-84: the sleep ends and the guard is dropped with the iteration
RefreshWake ==
    /\ refresh_pc = "sleep"
    /\ render_pc # "done"
    /\ refresh_pc' = "parse"
    /\ UNCHANGED <<hist_file, tui_file, live_file, parse_result, slot, render_pc, new_history, drawn>>
    /\ TuiFrame

\* line 176: history_data.lock().unwrap()
RenderLock ==
    /\ render_pc = "lock"
    /\ CanLock(RefreshHolds)
    /\ render_pc' = "draw"
    /\ UNCHANGED <<hist_file, tui_file, live_file, parse_result, slot, refresh_pc, new_history, drawn>>
    /\ TuiFrame

\* lines 177-457: terminal.draw reads the list behind the guard
RenderDraw ==
    /\ render_pc = "draw"
    /\ drawn' = Some(slot)
    /\ render_pc' = "input"
    /\ UNCHANGED <<hist_file, tui_file, live_file, parse_result, slot, refresh_pc, new_history>>
    /\ TuiFrame

\* lines 459-663: the event of this iteration, then the guard is dropped; a
\* quit key ends the loop and with it the process
RenderInput ==
    /\ render_pc = "input"
    /\ render_pc' \in {"lock", "done"}
    /\ UNCHANGED <<hist_file, tui_file, live_file, parse_result, slot, refresh_pc, new_history, drawn>>
    /\ TuiFrame

\* the shell's hook appends a line to the live log while the TUI runs
LiveLogAppend ==
    /\ render_pc # "done"
    /\ Len(live_file.lines) < MaxTuiLines
    /\ \E line \in TuiLiveLines :
           live_file' = [exists |-> TRUE, readable |-> TRUE,
                         lines |-> Append(live_file.lines, line)]
    /\ UNCHANGED <<hist_file, tui_file, parse_result, slot, refresh_pc, render_pc, new_history, drawn>>
    /\ TuiFrame

\* the history file the refresh thread reads stops being readable while the
\* TUI runs; it is main's file too when both read the same dialect
HistoryUnreadable ==
    /\ render_pc # "done"
    /\ tui_file.exists
    /\ tui_file.readable
    /\ tui_file' = [tui_file EXCEPT !.readable = FALSE]
    /\ hist_file' = IF shell = tui_shell THEN tui_file' ELSE hist_file
    /\ UNCHANGED <<live_file, parse_result, slot, refresh_pc, render_pc, new_history, drawn>>
    /\ TuiFrame

NextTui ==
    \/ RefreshParse
    \/ RefreshLock
    \/ RefreshWrite
    \/ RefreshWake
    \/ RenderLock
    \/ RenderDraw
    \/ RenderInput
    \/ LiveLogAppend
    \/ HistoryUnreadable

SpecTui == InitTui /\ [][NextTui]_vars

\* the steps of the render loop
RenderStep == RenderLock \/ RenderDraw \/ RenderInput

\* the steps of the refresh thread after its re-ingestion
RefreshLockedStep == RefreshLock \/ RefreshWrite \/ RefreshWake

\* RefreshParse can be taken exactly in these states, and it leaves them
ParseEnabled == refresh_pc = "parse" /\ render_pc # "done"

\* both threads are scheduled: a thread that can take a step from some point
\* on without interruption takes one (for the re-ingestion step, whose
\* enabling condition is ParseEnabled, this is written out).
\* std::sync::Mutex promises no order among the threads that wait for it, so
\* nothing stronger holds of lock().
SpecTuiFair ==
    /\ SpecTui
    /\ WF_vars(RefreshLockedStep)
    /\ []<>(~ParseEnabled)
    /\ WF_vars(RenderStep)

\* run_tui, lines 102 and 173: total and total_cmds, taken from the parameter
total_cmds == Len(entries)

\* run_tui, lines 147-157: the count freq_vec holds for a token, taken from
\* the parameter before the loop
CachedCount(token) == Count(entries, token)

----------------------------------------------------------------------------
(* Snapshot properties, under SpecTui *)

\* C27: the refresh thread and the render loop never have the snapshot slot
\* at the same time; the slot only ever changes to the complete result of the
\* refresh cycle under way, while the render loop is outside, and what the
\* render loop reads is the slot's value while the refresh thread is outside.
C27_SlotMutualExclusion ==
    /\ [](~(RefreshHolds /\ RenderHolds))
    /\ [][slot' # slot => (slot' = new_history /\ RefreshHolds /\ ~RenderHolds)]_vars
    /\ [][drawn' # drawn => (drawn' = Some(slot) /\ RenderHolds /\ ~RefreshHolds)]_vars

\* the render loop has drawn a refreshed snapshot and holds the slot while the
\* refresh thread waits for it
C27_Witness ==
    /\ RenderHolds
    /\ refresh_pc = "lock"
    /\ drawn = Some(slot)
    /\ slot # entries

\* C28: when parse_history fails in a refresh cycle, the slot afterwards
\* holds the empty list or the value it held before the cycle.
C28_FailedCycleKeepsSnapshot ==
    [][(refresh_pc = "write" /\ refresh_pc' = "sleep" /\ parse_result = "Err")
           => (slot' = <<>> \/ slot' = slot)]_vars

\* the records the lines of the live log stand for
LiveRecords == RecordSet(parse_heist_live_history(live_file))

Occurrences(s, r) == Cardinality({i \in 1..Len(s) : s[i] = r})

\* C29: every snapshot the render loop reads is sorted by timestamp with the
\* untimed records first, has no two adjacent records equal in (timestamp,
\* command), and holds at most one record for each line of the live log.
C29_SnapshotNormalized ==
    IsSome(drawn) =>
        LET snapshot == Unwrap(drawn)
        IN /\ SortedByTimestamp(snapshot)
           /\ \A i \in 1..(Len(snapshot) - 1) : ~SameBucket(snapshot[i], snapshot[i + 1])
           /\ \A r \in RecordSet(snapshot) :
                  Occurrences(snapshot, r) <= Max({1, Occurrences(parse_heist_live_history(live_file), r)})

(***************************************************************************)
(* Further properties: fish blocks, the --top listing, the merge without a *)
(* live log, and the reachable dialects.                                   *)
(***************************************************************************)
IsMarkerLine(line) == StartsWith(TrimStart(line), CmdMarker)

MarkerOrWhen(line) == IsMarkerLine(line) \/ StartsWith(line, WhenMarker)

\* C31: parse_fish_history emits exactly one record per '- cmd: ' marker
\* line, in file order, with the text after the marker as command; a record
\* has a timestamp only from a when line of its own block (nothing carries
\* over from an earlier block), and the lines that are neither marker nor
\* when lines change nothing: the result is that of the file without them.
C31_FishOneRecordPerMarker ==
    ReadOk({"Fish"}) =>
        LET lines == hist_file.lines
            cmds == {i \in 1..Len(lines) : IsMarkerLine(lines[i])}
        IN /\ Len(dialect_out) = Cardinality(cmds)
           /\ \A i \in cmds :
                  LET r == dialect_out[RankIn(cmds, i)]
                      text == TrimStart(lines[i])
                  IN /\ r.command = SubSeq(text, Len(CmdMarker) + 1, Len(text))
                     /\ IsSome(r.timestamp) =>
                            \E j \in (i + 1)..Len(lines) :
                                /\ IsWhenLine(lines[j])
                                /\ \A k \in (i + 1)..j : k \notin cmds
           /\ dialect_out = parse_fish_history(SelectSeq(lines, MarkerOrWhen))

\* two marker lines: the first record is emitted at the second marker, the second at end of file
C31_Witness ==
    /\ ReadOk({"Fish"})
    /\ Len(hist_file.lines) = 2
    /\ \A i \in 1..2 : IsMarkerLine(hist_file.lines[i])
    /\ hist_file.lines[1] # hist_file.lines[2]
    /\ Len(dialect_out) = 2

\* C32: the --top N listing has at most N rows, one per first token, each
\* with exactly the number of records of the slice that begin with that
\* token, in non-increasing count order, and no token left out has a count
\* larger than that of a listed token.
C32_TopNByCount ==
    (pc = "ranked" /\ entries # <<>>) =>
        LET keys == Tokens(entries)
            listed == {ranking[i].cmd : i \in 1..Len(ranking)}
            occurrences(t) ==
                Cardinality({i \in 1..Len(entries) : FirstToken(entries[i].command) = t})
        IN /\ Len(ranking) <= top_n
           /\ Len(ranking) = (IF top_n < Cardinality(keys) THEN top_n ELSE Cardinality(keys))
           /\ listed \subseteq keys
           /\ Cardinality(listed) = Len(ranking)
           /\ \A i \in 1..Len(ranking) : ranking[i].count = occurrences(ranking[i].cmd)
           /\ \A i, j \in 1..Len(ranking) : i < j => ranking[i].count >= ranking[j].count
           /\ \A a \in listed, b \in keys \ listed : occurrences(b) <= occurrences(a)

\* a listing cut short: more tokens than rows, and the tokens differ in count
C32_Witness ==
    /\ pc = "ranked"
    /\ top_n < Cardinality(Tokens(entries))
    /\ \E a, b \in Tokens(entries) : Count(entries, a) > Count(entries, b)
    /\ Len(ranking) = top_n

\* C33: when the live log contributes no record, parse_history returns as
\* many records as the dialect reader produced: repeated runs of a command in
\* the history file are all kept.
C33_NoLiveKeepsAll ==
    (parse_result = "Ok" /\ live_out = <<>>) => Len(entries) = Len(dialect_out)

\* C34: every dialect is a result of detect_shell; in particular a hint that
\* names mksh (and contains none of the names zsh, fish, csh, dash, yash and
\* osh, which belong to other dialects) is classified as mksh, not as ksh.
C34_MkshHintIsMksh ==
    (/\ pc = "detected"
     /\ Contains(env_shell, <<"m", "k", "s", "h">>)
     /\ \A name \in {<<"z", "s", "h">>, <<"f", "i", "s", "h">>, <<"c", "s", "h">>,
                      <<"d", "a", "s", "h">>, <<"y", "a", "s", "h">>, <<"o", "s", "h">>} :
            ~Contains(env_shell, name)) => shell = "Mksh"

----------------------------------------------------------------------------
(* The dispatch of analyze_history, under SpecDispatch *)

Priority == <<"suggest_aliases", "flag_dangerous", "per_directory", "per_host",
              "time_of_day", "heatmap", "top", "session_summary", "export">>

Requested(name) == IF name = "export" THEN IsSome(export) ELSE name \in flags

\* C38: for a non-empty history and a configuration that is valid,
\* analyze_history runs exactly one output action, the first one requested in
\* the order suggest_aliases, flag_dangerous, per_directory, per_host,
\* time_of_day, heatmap, top, session_summary, export, and the plain listing
\* when none is requested; the action works on the filtered list, no other
\* action leaves an output, and an export format that is not known gives
\* the result Ok and no file.
C38_OneActionByPriority ==
    (/\ pc = "analyzed"
     /\ entries # <<>>
     /\ IsSome(Filtered(entries, filter, search, range, utc_offset))) =>
        LET list == Unwrap(Filtered(entries, filter, search, range, utc_offset))
            asked == {k \in 1..Len(Priority) : Requested(Priority[k])}
            first == IF asked = {} THEN "default" ELSE Priority[Min(asked)]
        IN /\ analysis = first
           /\ filtered = list
           /\ first # "suggest_aliases" => aliases = <<>>
           /\ flagged = (IF first = "flag_dangerous" THEN FlagLoop(list) ELSE <<>>)
           /\ dir_counts = (IF first = "per_directory" THEN per_directory_stats(list) ELSE <<>>)
           /\ heatmap = (IF first = "heatmap" THEN heatmap_stats(list, utc_offset) ELSE ZeroHeatmap)
           /\ IF first = "top"
              THEN /\ Len(ranking) <= top_n
                   /\ \A i \in 1..Len(ranking) : ranking[i].count = Count(list, ranking[i].cmd)
              ELSE ranking = <<>>
           /\ sessions = (IF first = "session_summary" THEN group_sessions(list, 10) ELSE <<>>)
           /\ printed = (IF first = "default" THEN CommandsOf(list) ELSE <<>>)
           /\ Cardinality(exported) <= 1
           /\ first # "export" => (exported = {} /\ analyze_result = "Ok")
           /\ (first = "export" /\ Unwrap(export) \notin {"json", "csv"}) =>
                  (exported = {} /\ analyze_result = "Ok")

\* two analyses and an export requested at once, on a list the filter has shortened
C38_Witness ==
    /\ pc = "analyzed"
    /\ flags = {"heatmap", "per_directory"}
    /\ IsSome(export)
    /\ analysis = "per_directory"
    /\ filtered # <<>>
    /\ Len(filtered) < Len(entries)

----------------------------------------------------------------------------
(* The refresh thread and the render loop, under SpecTui and SpecTuiFair *)

\* C35: every re-ingestion of the refresh thread parses the dialect main
\* used for the initial history, a forced one included: the list a cycle
\* produces is the one parse_history gives for main's dialect and file,
\* followed by the live records.
C35_RefreshSameDialect ==
    [][(refresh_pc = "parse" /\ refresh_pc' = "lock")
           => new_history' = RefreshedHistory(shell, home_ok, hist_file, mtime, live_file)]_vars

\* C36: the refresh thread has the snapshot lock only while it replaces the
\* snapshot, so the render loop's lock() returns at once while the refresh
\* thread re-ingests or sleeps.
C36_LockOnlyWhileWriting ==
    /\ RefreshHolds => refresh_pc = "write"
    /\ (render_pc = "lock" /\ refresh_pc \in {"parse", "sleep"}) => ENABLED RenderLock

\* C37: with both threads scheduled, a finished re-ingestion is eventually
\* written to the slot (unless the program quits first), and a render loop
\* that waits for the lock eventually gets it.
C37_NoStarvation ==
    /\ (refresh_pc = "lock") ~> (refresh_pc = "write" \/ render_pc = "done")
    /\ (render_pc = "lock") ~> (render_pc = "draw")

\* C39: every frame shows all tabs from the snapshot it read: the total and
\* the counts of the summary are those of the snapshot the command list of
\* the same frame shows.
C39_TabsShowLatestSnapshot ==
    IsSome(drawn) =>
        LET snapshot == Unwrap(drawn)
        IN /\ total_cmds = Len(snapshot)
           /\ \A token \in Tokens(entries) \cup Tokens(snapshot) :
                  CachedCount(token) = Count(snapshot, token)

----------------------------------------------------------------------------
(* SpecTabs: the key handling of run_tui outside search mode *)

MaxTabRows == 2  \* longest history handed to run_tui

\* enum Tab, in the order of its declaration
Tabs == <<"Summary", "PerCommand", "Sessions", "Search", "Aliases", "Dangerous",
          "Directory", "Host", "TimeOfDay", "Heatmap">>

TabSet == {Tabs[k] : k \in 1..Len(Tabs)}

\* the match of KeyCode::Right and of 'l' in Vim mode
NextTab(t) ==
    CASE t = "Summary" -> "PerCommand"
      [] t = "PerCommand" -> "Sessions"
      [] t = "Sessions" -> "Search"
      [] t = "Search" -> "Aliases"
      [] t = "Aliases" -> "Dangerous"
      [] t = "Dangerous" -> "Directory"
      [] t = "Directory" -> "Host"
      [] t = "Host" -> "TimeOfDay"
      [] t = "TimeOfDay" -> "Heatmap"
      [] t = "Heatmap" -> "Summary"

\* the match of KeyCode::Left and of 'h' in Vim mode
PrevTab(t) ==
    CASE t = "Summary" -> "Search"
      [] t = "PerCommand" -> "Summary"
      [] t = "Sessions" -> "PerCommand"
      [] t = "Search" -> "Sessions"
      [] t = "Aliases" -> "Summary"
      [] t = "Dangerous" -> "Aliases"
      [] t = "Directory" -> "Dangerous"
      [] t = "Host" -> "Directory"
      [] t = "TimeOfDay" -> "Host"
      [] t = "Heatmap" -> "TimeOfDay"

\* run_tui, line 102: total = history.len()
total == Len(entries)

InitTabs ==
    /\ pc = "tabs"
    /\ Idle
    /\ dialect_out = <<>>
    /\ live_out = <<>>
    /\ entries \in SeqsUpTo({HistoryEntry(Some(0), ls)}, MaxTabRows)
    /\ NoLoop
    /\ NoAnalytics
    /\ NoStats
    /\ NoQuery
    /\ NoTui
    /\ NoDispatch
    /\ NoTabs

TabsFrame ==
    /\ UNCHANGED <<pc, shell, hist_file, live_file, mtime, dialect_out, live_out, entries,
                   gap_minutes, idx, current, last_ts, sessions, tui_result>>
    /\ UNCHANGED <<home_ok, parse_result, env_shell, top_n, ranking, flagged, found>>
    /\ UNCHANGED <<statsVars, queryVars, tuiVars, dispatchVars>>

\* F2 (lines 462-469)
KeyModeKey ==
    /\ pc = "tabs"
    /\ key_mode' = (CASE key_mode = "Default" -> "Vim"
                       [] key_mode = "Vim" -> "Emacs"
                       [] key_mode = "Emacs" -> "Default")
    /\ UNCHANGED <<tab, theme, selected>>
    /\ TabsFrame

\* F3 (lines 470-477)
ThemeKey ==
    /\ pc = "tabs"
    /\ theme' = (CASE theme = "Default" -> "HighContrast"
                    [] theme = "HighContrast" -> "Colorblind"
                    [] theme = "Colorblind" -> "Default")
    /\ UNCHANGED <<tab, key_mode, selected>>
    /\ TabsFrame

\* Right, or 'l' in Vim mode (lines 534-548 and 621-635); Emacs mode has no such key
NextTabKey ==
    /\ pc = "tabs"
    /\ key_mode \in {"Default", "Vim"}
    /\ tab' = NextTab(tab)
    /\ selected' = 0
    /\ UNCHANGED <<key_mode, theme>>
    /\ TabsFrame

\* Left, or 'h' in Vim mode (lines 519-533 and 636-650); Emacs mode has no such key
PrevTabKey ==
    /\ pc = "tabs"
    /\ key_mode \in {"Default", "Vim"}
    /\ tab' = PrevTab(tab)
    /\ selected' = 0
    /\ UNCHANGED <<key_mode, theme>>
    /\ TabsFrame

\* Down and Up (in Vim mode 'j' and 'k', in Emacs mode Ctrl-n and Ctrl-p) on
\* the command list (lines 549-564, 577-592 and 605-620)
ScrollKey ==
    /\ pc = "tabs"
    /\ tab = "PerCommand"
    /\ \/ selected + 1 < total /\ selected' = selected + 1
       \/ selected > 0 /\ selected' = selected - 1
    /\ UNCHANGED <<tab, key_mode, theme>>
    /\ TabsFrame

\* Ctrl-a and Ctrl-e in Emacs mode (lines 575-576)
HomeEndKey ==
    /\ pc = "tabs"
    /\ key_mode = "Emacs"
    /\ selected' \in {0, IF total > 0 THEN total - 1 ELSE 0}
    /\ UNCHANGED <<tab, key_mode, theme>>
    /\ TabsFrame

NextTabs ==
    \/ KeyModeKey
    \/ ThemeKey
    \/ NextTabKey
    \/ PrevTabKey
    \/ ScrollKey
    \/ HomeEndKey

SpecTabs == InitTabs /\ [][NextTabs]_vars

\* the tabs n presses of the previous-tab key lead through, from t
RECURSIVE PrevOrbit(_, _)
PrevOrbit(t, n) == IF n = 0 THEN {t} ELSE {t} \cup PrevOrbit(PrevTab(t), n - 1)

RECURSIVE NextOrbit(_, _)
NextOrbit(t, n) == IF n = 0 THEN {t} ELSE {t} \cup NextOrbit(NextTab(t), n - 1)

\* C40: from every tab, the next-tab key followed by the previous-tab key,
\* and the previous-tab key followed by the next-tab key, lead back to the
\* tab, and repeated presses of either key lead through all ten tabs.
C40_PrevInvertsNext ==
    pc = "tabs" =>
        /\ PrevTab(NextTab(tab)) = tab
        /\ NextTab(PrevTab(tab)) = tab
        /\ NextOrbit(tab, Len(Tabs)) = TabSet
        /\ PrevOrbit(tab, Len(Tabs)) = TabSet
====
